---- MODULE Spec2Model ----
(***************************************************************************)
(* A model of catboost/libs/data_new/objects.cpp: grouping of objects by   *)
(* group id, the common per-object data, raw and quantized objects data    *)
(* providers, their subsets, checksum and binary save/load.                *)
(***************************************************************************)
EXTENDS Integers, Sequences, FiniteSets, TLC

VARIABLES
    op,              \* the operation that ran last ("none" before any)
    objectCount,     \* ui32 objectCount argument
    groupIds,        \* TMaybeData<TConstArrayRef<TGroupId>> argument
    objectsGrouping, \* TMaybe<TObjectsGroupingPtr> argument
    result,          \* what the operation returned or threw
    pc,              \* "new": no provider yet, "live": constructed, "failed"
    arg,             \* the arguments of the provider's constructor or method
    ObjectsGrouping, \* TObjectsDataProvider::ObjectsGrouping
    CommonData,      \* TObjectsDataProvider::CommonData
    Data,            \* TRawObjectsDataProvider::Data, the features' columns
    source           \* the provider a subset was taken from, and the subsets taken

groupingVars == <<objectCount, groupIds, objectsGrouping>>

rawVars == <<Data, source>>

providerVars == <<pc, arg, ObjectsGrouping, CommonData, rawVars>>

vars == <<op, result, groupingVars, providerVars>>

(***************************************************************************)
(* Bounds of the model.                                                    *)
(***************************************************************************)
MaxObjects == 4

MaxRows == 3

MaxSubsetRows == 3

MaxColumnRows == 9

MaxCheckSumCalls == 2

GateRows == 2

MaxCheckedRows == 2

GroupIdValues == {1, 2, 3}

(***************************************************************************)
(* TMaybe / TMaybeData.                                                    *)
(***************************************************************************)
Nothing == [defined |-> FALSE, value |-> <<>>]

Just(v) == [defined |-> TRUE, value |-> v]

(***************************************************************************)
(* Sequences of length 0..n over S.                                        *)
(***************************************************************************)
SeqsUpTo(S, n) == UNION {[1..k -> S] : k \in 0..n}

(***************************************************************************)
(* CheckDataSize(dataSize, expectedSize, name, dataCanBeEmpty, ...): TRUE  *)
(* when the check passes.                                                  *)
(***************************************************************************)
CheckDataSize(dataSize, expectedSize, dataCanBeEmpty) ==
    (dataCanBeEmpty /\ dataSize = 0) \/ dataSize = expectedSize

(***************************************************************************)
(* TGroupBounds and TObjectsGrouping.  A grouping is the sequence of its   *)
(* groups' bounds; the trivial grouping of n objects has n groups of one.  *)
(***************************************************************************)
TGroupBounds(begin, end) == [Begin |-> begin, End |-> end]

TrivialGrouping(n) == [i \in 1..n |-> TGroupBounds(i - 1, i)]

GetGroupCount(grouping) == Len(grouping)

GetObjectCount(grouping) ==
    IF Len(grouping) = 0 THEN 0 ELSE grouping[Len(grouping)].End

\* GetGroup(groupIdx) of a grouping, groupIdx counted from 0
GetGroup(grouping, groupIdx) == grouping[groupIdx + 1]

(***************************************************************************)
(* An out-of-bounds read of an array's element 0 is undefined behaviour:   *)
(* it yields some value, or the process stops.                             *)
(***************************************************************************)
OobReads ==
    {[crash |-> TRUE, value |-> 0]}
        \cup {[crash |-> FALSE, value |-> v] : v \in GroupIdValues}

(***************************************************************************)
(* Sort and std::adjacent_find (TRUE when two adjacent elements are equal) *)
(***************************************************************************)
RECURSIVE Insert(_, _)
Insert(sorted, x) ==
    IF sorted = <<>> THEN <<x>>
    ELSE IF x <= Head(sorted) THEN <<x>> \o sorted
    ELSE <<Head(sorted)>> \o Insert(Tail(sorted), x)

RECURSIVE Sort(_)
Sort(s) == IF s = <<>> THEN <<>> ELSE Insert(Sort(Tail(s)), Head(s))

AdjacentFind(s) == \E i \in 1..(Len(s) - 1) : s[i] = s[i + 1]

HasDuplicatesUnsorted(groupGroupIds) == AdjacentFind(groupGroupIds)

\* lines 68-70 and 105-107: Sort, adjacent_find, CB_ENSURE(it == end)
HasDuplicates(groupGroupIds) == AdjacentFind(Sort(groupGroupIds))

(***************************************************************************)
(* What an operation returns.                                              *)
(***************************************************************************)
Ok(grouping, requests) ==
    [status |-> "ok", error |-> "", grouping |-> grouping, requests |-> requests]

Error(msg, requests) ==
    [status |-> "error", error |-> msg, grouping |-> <<>>, requests |-> requests]

Crash(requests) ==
    [status |-> "crash", error |-> "", grouping |-> <<>>, requests |-> requests]

ErrSize == "data size is not equal to object count"
ErrGroupingSize == "group Ids data size is not equal to objectGrouping's object count"
ErrNotConsecutive == "group Ids are not consecutive"
ErrDifferentEnds == "objectsGrouping and grouping by groupId have different ends"
ErrGroupIndex == "group index is out of range"

(***************************************************************************)
(* CreateObjectsGroupingFromGroupIds                                       *)
(***************************************************************************)
RECURSIVE CreateScan(_, _, _)
CreateScan(groupIdsData, objectIdx, st) ==
    IF objectIdx >= Len(groupIdsData) THEN st
    ELSE IF groupIdsData[objectIdx + 1] # st.lastGroupId
         THEN CreateScan(groupIdsData, objectIdx + 1,
                  [lastGroupId |-> groupIdsData[objectIdx + 1],
                   groupGroupIds |-> Append(st.groupGroupIds, groupIdsData[objectIdx + 1]),
                   groupBounds |-> Append(st.groupBounds,
                                          TGroupBounds(st.lastGroupBegin, objectIdx)),
                   lastGroupBegin |-> objectIdx])
         ELSE CreateScan(groupIdsData, objectIdx + 1, st)

CreateObjectsGroupingFromGroupIds(objCount, gids, oob) ==
    IF ~gids.defined THEN Ok(TrivialGrouping(objCount), <<>>)
    ELSE LET groupIdsData == gids.value IN
         IF ~CheckDataSize(Len(groupIdsData), objCount, FALSE) THEN Error(ErrSize, <<>>)
         ELSE IF Len(groupIdsData) = 0 /\ oob.crash THEN Crash(<<>>)
         ELSE LET first == IF Len(groupIdsData) = 0 THEN oob.value ELSE groupIdsData[1]
                  st == CreateScan(groupIdsData, 1,
                            [lastGroupId |-> first,
                             groupGroupIds |-> <<first>>,
                             groupBounds |-> <<>>,
                             lastGroupBegin |-> 0])
                  groupBounds == Append(st.groupBounds,
                                        TGroupBounds(st.lastGroupBegin, Len(groupIdsData)))
              IN IF HasDuplicates(st.groupGroupIds) THEN Error(ErrNotConsecutive, <<>>)
                 ELSE Ok(groupBounds, <<>>)

(***************************************************************************)
(* CheckGroupIds.  requests records every group index GetGroup was asked.  *)
(***************************************************************************)
NextGroupBoundsStale(grouping, groupGroupIds, currentGroupBounds) == currentGroupBounds

\* line 60: currentGroupBounds = (*objectsGrouping)->GetGroup(groupGroupIds.size())
NextGroupBounds(grouping, groupGroupIds, currentGroupBounds) ==
    GetGroup(grouping, Len(groupGroupIds))

RECURSIVE CheckScan(_, _, _, _)
CheckScan(groupIdsData, grouping, objectIdx, st) ==
    IF objectIdx >= Len(groupIdsData) \/ st.failed # "" THEN st
    ELSE IF groupIdsData[objectIdx + 1] # st.lastGroupId
         THEN IF grouping.defined /\ objectIdx # st.currentGroupBounds.End
              THEN [st EXCEPT !.failed = ErrDifferentEnds]
              ELSE IF grouping.defined
                      /\ Len(st.groupGroupIds) >= GetGroupCount(grouping.value)
              THEN [st EXCEPT !.failed = ErrGroupIndex,
                              !.requests = Append(@, Len(st.groupGroupIds))]
              ELSE CheckScan(groupIdsData, grouping, objectIdx + 1,
                       [lastGroupId |-> groupIdsData[objectIdx + 1],
                        groupGroupIds |-> Append(st.groupGroupIds,
                                                 groupIdsData[objectIdx + 1]),
                        currentGroupBounds |->
                            IF grouping.defined
                            THEN NextGroupBounds(grouping.value, st.groupGroupIds,
                                                 st.currentGroupBounds)
                            ELSE st.currentGroupBounds,
                        requests |->
                            IF grouping.defined
                            THEN Append(st.requests, Len(st.groupGroupIds))
                            ELSE st.requests,
                        failed |-> ""])
         ELSE CheckScan(groupIdsData, grouping, objectIdx + 1, st)

CheckGroupIds(objCount, gids, grouping, oob) ==
    IF ~gids.defined THEN Ok(<<>>, <<>>)
    ELSE LET groupIdsData == gids.value IN
         IF ~CheckDataSize(Len(groupIdsData), objCount, FALSE) THEN Error(ErrSize, <<>>)
         ELSE IF grouping.defined
                 /\ ~CheckDataSize(Len(groupIdsData), GetObjectCount(grouping.value), FALSE)
         THEN Error(ErrGroupingSize, <<>>)
         ELSE IF grouping.defined /\ GetGroupCount(grouping.value) = 0
         THEN Error(ErrGroupIndex, <<0>>)
         ELSE IF Len(groupIdsData) = 0 /\ oob.crash
         THEN Crash(IF grouping.defined THEN <<0>> ELSE <<>>)
         ELSE LET first == IF Len(groupIdsData) = 0 THEN oob.value ELSE groupIdsData[1]
                  st == CheckScan(groupIdsData, grouping, 1,
                            [lastGroupId |-> first,
                             groupGroupIds |-> <<first>>,
                             currentGroupBounds |->
                                 IF grouping.defined THEN GetGroup(grouping.value, 0)
                                 ELSE TGroupBounds(0, 0),
                             requests |-> IF grouping.defined THEN <<0>> ELSE <<>>,
                             failed |-> ""])
              IN IF st.failed # "" THEN Error(st.failed, st.requests)
                 ELSE IF HasDuplicates(st.groupGroupIds)
                 THEN Error(ErrNotConsecutive, st.requests)
                 ELSE Ok(<<>>, st.requests)

(***************************************************************************)
(* The arguments the grouping functions are called with.                   *)
(***************************************************************************)
RECURSIVE GroupingsOf(_)
GroupingsOf(n) ==
    IF n = 0 THEN {<<>>}
    ELSE UNION {{Append(g, TGroupBounds(b, n)) : g \in GroupingsOf(b)} : b \in 0..(n - 1)}

Groupings ==
    UNION {GroupingsOf(n) : n \in 0..MaxObjects} \cup {<<TGroupBounds(0, 0)>>}

GroupIdsArgs == {Nothing} \cup {Just(s) : s \in SeqsUpTo(GroupIdValues, MaxObjects)}

GroupingArgs == {Nothing} \cup {Just(g) : g \in Groupings}

NoResult == [status |-> "none", error |-> "", grouping |-> <<>>, requests |-> <<>>]

NoRawData ==
    /\ Data = <<>>
    /\ source = <<>>

NoProvider ==
    /\ pc = "new"
    /\ arg = <<>>
    /\ ObjectsGrouping = <<>>
    /\ CommonData = <<>>
    /\ NoRawData

InitGrouping ==
    /\ op = "none"
    /\ NoProvider
    /\ objectCount \in 0..MaxObjects
    /\ groupIds \in GroupIdsArgs
    /\ objectsGrouping \in GroupingArgs
    /\ result = NoResult

OobChoices(gids) ==
    IF gids.defined /\ Len(gids.value) = 0 THEN OobReads
    ELSE {[crash |-> FALSE, value |-> 0]}

CallCreate ==
    /\ op = "none"
    /\ objectsGrouping = Nothing
    /\ \E oob \in OobChoices(groupIds) :
           result' = CreateObjectsGroupingFromGroupIds(objectCount, groupIds, oob)
    /\ op' = "Create"
    /\ UNCHANGED <<groupingVars, providerVars>>

CallCheckGroupIds ==
    /\ op = "none"
    /\ \E oob \in OobChoices(groupIds) :
           result' = CheckGroupIds(objectCount, groupIds, objectsGrouping, oob)
    /\ op' = "Check"
    /\ UNCHANGED <<groupingVars, providerVars>>

NextGrouping == CallCreate \/ CallCheckGroupIds

SpecGrouping == InitGrouping /\ [][NextGrouping]_vars

(***************************************************************************)
(* Properties of the grouping functions.                                   *)
(***************************************************************************)
\* 1-based positions where a run of equal consecutive group ids starts
RunStarts(ids) == {i \in 1..Len(ids) : i = 1 \/ ids[i] # ids[i - 1]}

\* 0-based positions where the id differs from the previous object's
RunBoundaries(ids) == {i - 1 : i \in RunStarts(ids) \ {1}}

\* the same id in two runs separated by a run of another id
HasReuse(ids) ==
    \E i, j, k \in 1..Len(ids) : i < j /\ j < k /\ ids[i] = ids[k] /\ ids[j] # ids[i]

\* the 0-based half-open bounds of the run that starts at 1-based position s
RunBounds(ids, s) ==
    LET later == {t \in RunStarts(ids) : t > s}
    IN TGroupBounds(s - 1,
           IF later = {} THEN Len(ids)
           ELSE (CHOOSE t \in later : \A u \in later : t <= u) - 1)

\* bounds ordered, contiguous, non-overlapping and covering [0, n) exactly
IsPartition(grouping, n) ==
    /\ \A i \in 1..Len(grouping) : grouping[i].Begin < grouping[i].End
    /\ \A i \in 1..(Len(grouping) - 1) : grouping[i].End = grouping[i + 1].Begin
    /\ Len(grouping) > 0 => grouping[1].Begin = 0 /\ grouping[Len(grouping)].End = n
    /\ Len(grouping) = 0 => n = 0

GroupsAreRuns(grouping, ids) ==
    /\ Len(grouping) = Cardinality(RunStarts(ids))
    /\ IsPartition(grouping, Len(ids))
    /\ \A s \in RunStarts(ids) :
           grouping[Cardinality({t \in RunStarts(ids) : t <= s})] = RunBounds(ids, s)

CreateCalledOnConsecutiveIds ==
    /\ op = "Create"
    /\ groupIds.defined
    /\ Len(groupIds.value) = objectCount
    /\ ~HasReuse(groupIds.value)

\* C1: for every row count n, n = 0 included, and every present sequence of
\* n group ids with k runs and no id reused in two separated runs,
\* CreateObjectsGroupingFromGroupIds succeeds and returns exactly k groups
\* that partition [0, n) in order, group i spanning the i-th run.
C1_CreateReturnsTheRuns ==
    CreateCalledOnConsecutiveIds =>
        /\ result.status = "ok"
        /\ GroupsAreRuns(result.grouping, groupIds.value)

\* The same for at least one object: there the function returns the runs.
CreateReturnsTheRunsOfNonEmptyIds ==
    (CreateCalledOnConsecutiveIds /\ objectCount >= 1) =>
        /\ result.status = "ok"
        /\ GroupsAreRuns(result.grouping, groupIds.value)

\* With no objects and present (empty) group ids the function reads
\* groupIdsData[0] and, when that read returns, answers one group [0, 0).
CreateOnEmptyIdsReturnsOneGroup ==
    (CreateCalledOnConsecutiveIds /\ objectCount = 0) =>
        \/ result.status = "crash"
        \/ result.status = "ok" /\ result.grouping = <<TGroupBounds(0, 0)>>

CheckedWithoutGrouping ==
    /\ op \in {"Create", "Check"}
    /\ objectsGrouping = Nothing
    /\ groupIds.defined
    /\ Len(groupIds.value) = objectCount

\* C2: for present group ids (of the row count's length) that reuse an id in
\* two separated runs, CreateObjectsGroupingFromGroupIds and CheckGroupIds
\* without a grouping both fail with "group Ids are not consecutive" and
\* return no grouping; with no such reuse neither raises that error.
C2_ReuseIsNotConsecutive ==
    CheckedWithoutGrouping =>
        /\ HasReuse(groupIds.value) =>
               /\ result.status = "error"
               /\ result.error = ErrNotConsecutive
               /\ result.grouping = <<>>
        /\ ~HasReuse(groupIds.value) => result.error # ErrNotConsecutive

C2_Witness ==
    /\ CheckedWithoutGrouping
    /\ op = "Check"
    /\ groupIds.value = <<1, 2, 2, 1>>
    /\ result.error = ErrNotConsecutive

ValidatedAgainstGrouping ==
    /\ op = "Check"
    /\ groupIds.defined
    /\ objectsGrouping.defined
    /\ Len(groupIds.value) = objectCount
    /\ GetObjectCount(objectsGrouping.value) = objectCount

\* the 0-based positions where a group of the grouping ends
GroupEnds(grouping) == {grouping[i].End : i \in 1..Len(grouping)}

\* the i-th smallest element of a set of numbers
RECURSIVE Nth(_, _)
Nth(S, i) ==
    LET m == CHOOSE x \in S : \A y \in S : x <= y
    IN IF i = 1 THEN m ELSE Nth(S \ {m}, i - 1)

\* in order, the i-th run ends where the i-th group ends
RunsEndWhereGroupsEnd(ids, grouping) ==
    \A i \in 1..Cardinality(RunBoundaries(ids)) :
        i <= Len(grouping) /\ Nth(RunBoundaries(ids), i) = grouping[i].End

TFullSubset(size) == [kind |-> "Full", size |-> size, indices |-> <<>>]

TIndexedSubset(indices) == [kind |-> "Indexed", size |-> Len(indices), indices |-> indices]

\* TArraySubsetIndexing::Size
SubsetSize(indexing) == indexing.size

\* the source position of the subset's element i (0-based)
SubsetAt(indexing, i) ==
    IF indexing.kind = "Full" THEN i ELSE indexing.indices[i + 1]

(***************************************************************************)
(* EObjectsOrder                                                           *)
(***************************************************************************)
EObjectsOrder == {"Ordered", "RandomShuffled", "Undefined"}

(***************************************************************************)
(* TCommonObjectsData::CheckAllExceptGroupIds: "" when it passes, else the *)
(* message of the exception.                                               *)
(***************************************************************************)
ErrSubgroupWithoutGroup == "non-empty SubgroupIds when GroupIds is not defined"
ErrSubgroupSize == "Subgroup Ids data size is not equal to Group Ids size"
ErrTimestampSize == "Timestamp data size is not equal to object count"
ErrNoLayout == "FeaturesLayout is undefined"
ErrObjectsGroupingSize ==
    "objectsGrouping's object count data size is not equal to SubsetIndexing's Size"

CheckAllExceptGroupIds(commonData) ==
    IF commonData.SubgroupIds.defined /\ ~commonData.GroupIds.defined
    THEN ErrSubgroupWithoutGroup
    ELSE IF commonData.SubgroupIds.defined
            /\ ~CheckDataSize(Len(commonData.SubgroupIds.value),
                              Len(commonData.GroupIds.value), FALSE)
    THEN ErrSubgroupSize
    ELSE IF commonData.Timestamp.defined
            /\ ~CheckDataSize(Len(commonData.Timestamp.value),
                              SubsetSize(commonData.SubsetIndexing), FALSE)
    THEN ErrTimestampSize
    ELSE ""

(***************************************************************************)
(* TCommonObjectsData::Check                                               *)
(***************************************************************************)
CommonDataCheck(commonData, grouping, oob) ==
    IF ~commonData.FeaturesLayout.defined THEN Error(ErrNoLayout, <<>>)
    ELSE IF grouping.defined
            /\ ~CheckDataSize(GetObjectCount(grouping.value),
                              SubsetSize(commonData.SubsetIndexing), FALSE)
    THEN Error(ErrObjectsGroupingSize, <<>>)
    ELSE LET checked == CheckGroupIds(SubsetSize(commonData.SubsetIndexing),
                                      commonData.GroupIds, grouping, oob)
         IN IF checked.status # "ok" THEN checked
            ELSE IF CheckAllExceptGroupIds(commonData) # ""
            THEN Error(CheckAllExceptGroupIds(commonData), checked.requests)
            ELSE checked

(***************************************************************************)
(* TObjectsDataProvider::TObjectsDataProvider                              *)
(***************************************************************************)
IsSortedStrictly(s) == \A i \in 1..(Len(s) - 1) : s[i] < s[i + 1]

\* std::is_sorted
IsSorted(s) == \A i \in 1..(Len(s) - 1) : s[i] <= s[i + 1]

PromotedOrderOfSorted(commonData, grouping) ==
    IF /\ commonData.Order = "Undefined"
       /\ commonData.Timestamp.defined
       /\ GetObjectCount(grouping) > 1
       /\ IsSorted(commonData.Timestamp.value)
    THEN "Ordered"
    ELSE commonData.Order

\* lines 242-250
PromotedOrder(commonData, grouping) ==
    IF /\ commonData.Order = "Undefined"
       /\ commonData.Timestamp.defined
       /\ GetObjectCount(grouping) > 1
       /\ IsSorted(commonData.Timestamp.value)
       /\ commonData.Timestamp.value[1]
              # commonData.Timestamp.value[Len(commonData.Timestamp.value)]
    THEN "Ordered"
    ELSE commonData.Order

Constructed(grouping, commonData) ==
    [status |-> "ok", error |-> "", requests |-> <<>>,
     grouping |-> grouping,
     commonData |-> [commonData EXCEPT !.Order = PromotedOrder(commonData, grouping)]]

NotConstructed(failure) ==
    [status |-> failure.status, error |-> failure.error, requests |-> failure.requests,
     grouping |-> <<>>, commonData |-> <<>>]

ObjectsDataProvider(grouping, commonData, skipCheck, oob) ==
    IF grouping.defined
    THEN LET checked == CommonDataCheck(commonData, grouping, oob)
         IN IF ~skipCheck /\ checked.status # "ok" THEN NotConstructed(checked)
            ELSE Constructed(grouping.value, commonData)
    ELSE IF ~skipCheck /\ CheckAllExceptGroupIds(commonData) # ""
    THEN NotConstructed(Error(CheckAllExceptGroupIds(commonData), <<>>))
    ELSE LET created == CreateObjectsGroupingFromGroupIds(
                            SubsetSize(commonData.SubsetIndexing), commonData.GroupIds, oob)
         IN IF created.status # "ok" THEN NotConstructed(created)
            ELSE Constructed(created.grouping, commonData)

(***************************************************************************)
(* The constructor's arguments.  With skipCheck the caller passes data it  *)
(* has validated: every column has one length and the grouping covers it.  *)
(***************************************************************************)
TimestampValues == {1, 2, 3}

SubgroupIdValues == {1, 2}

Ones(n) == [i \in 1..n |-> 1]

Alternating(n) == [i \in 1..n |-> 1 + ((i - 1) % 2)]

NoFeaturesLayout == [Float |-> <<>>, Cat |-> <<>>]

ConstructorArgs(n, orders, timestamps) ==
    {[objectsGrouping |-> g,
      commonData |-> [FeaturesLayout |-> Just(NoFeaturesLayout),
                      SubsetIndexing |-> TFullSubset(n),
                      Order |-> o,
                      GroupIds |-> gi,
                      SubgroupIds |-> si,
                      Timestamp |-> ts],
      skipCheck |-> sk] :
        g \in {Nothing, Just(TrivialGrouping(n)), Just(TrivialGrouping(n + 1))}
                 \cup {Just(<<TGroupBounds(0, n)>>) : k \in {n} \ {0}},
        o \in orders,
        gi \in {Nothing, Just(Ones(n)), Just(Alternating(n)), Just(Ones(n + 1))},
        si \in {Nothing, Just(Ones(n)), Just(Ones(n + 1))},
        ts \in timestamps,
        sk \in BOOLEAN}

ColumnHasLength(column, n) == column.defined => Len(column.value) = n

IsValidated(a, n) ==
    /\ ColumnHasLength(a.commonData.GroupIds, n)
    /\ ColumnHasLength(a.commonData.SubgroupIds, n)
    /\ ColumnHasLength(a.commonData.Timestamp, n)
    /\ a.commonData.SubgroupIds.defined => a.commonData.GroupIds.defined
    /\ a.objectsGrouping.defined => GetObjectCount(a.objectsGrouping.value) = n

TimestampsOfLength(n) ==
    {Nothing, Just(Ones(n + 1))} \cup {Just(s) : s \in [1..n -> TimestampValues]}

NoGroupingCall ==
    /\ objectCount = 0
    /\ groupIds = Nothing
    /\ objectsGrouping = Nothing

InitConstruct ==
    /\ op = "none"
    /\ result = NoResult
    /\ NoGroupingCall
    /\ pc = "new"
    /\ ObjectsGrouping = <<>>
    /\ CommonData = <<>>
    /\ NoRawData
    /\ \E n \in 0..MaxRows :
           /\ arg \in ConstructorArgs(n, EObjectsOrder, TimestampsOfLength(n))
           /\ arg.skipCheck => IsValidated(arg, n)

Construct ==
    /\ pc = "new"
    /\ \E oob \in OobChoices(arg.commonData.GroupIds) :
           LET made == ObjectsDataProvider(arg.objectsGrouping, arg.commonData,
                                           arg.skipCheck, oob)
           IN /\ result' = [status |-> made.status, error |-> made.error,
                            grouping |-> <<>>, requests |-> made.requests]
              /\ pc' = IF made.status = "ok" THEN "live" ELSE "failed"
              /\ ObjectsGrouping' = made.grouping
              /\ CommonData' = made.commonData
    /\ op' = "Construct"
    /\ UNCHANGED <<arg, groupingVars, rawVars>>

NextConstruct == Construct

SpecConstruct == InitConstruct /\ [][NextConstruct]_vars

(***************************************************************************)
(* Properties of the constructor.                                          *)
(***************************************************************************)
StrictlyIncreasing(s) == \A i \in 1..(Len(s) - 1) : s[i] < s[i + 1]

AllEqual(s) == \A i, j \in 1..Len(s) : s[i] = s[j]

ConstructedFrom(order) ==
    /\ op = "Construct"
    /\ pc = "live"
    /\ arg.commonData.Order = order

\* C6: a provider constructed with order Undefined, at least 2 rows and
\* strictly increasing timestamps reports Ordered; constructed with order
\* Undefined and all timestamps equal it stays Undefined; an order that was
\* set (Ordered, RandomShuffled) is kept by the constructor.
C6_OrderPromotion ==
    /\ (/\ ConstructedFrom("Undefined")
        /\ arg.commonData.Timestamp.defined
        /\ GetObjectCount(ObjectsGrouping) >= 2
        /\ StrictlyIncreasing(arg.commonData.Timestamp.value))
           => CommonData.Order = "Ordered"
    /\ (/\ ConstructedFrom("Undefined")
        /\ arg.commonData.Timestamp.defined
        /\ AllEqual(arg.commonData.Timestamp.value))
           => CommonData.Order = "Undefined"
    /\ \A order \in {"Ordered", "RandomShuffled"} :
           ConstructedFrom(order) => CommonData.Order = order

C6_Witness ==
    /\ ConstructedFrom("Undefined")
    /\ ~arg.skipCheck
    /\ arg.commonData.Timestamp = Just(<<1, 2, 3>>)
    /\ CommonData.Order = "Ordered"

HasEqualNeighbours(s) == \E i \in 1..(Len(s) - 1) : s[i] = s[i + 1]

HasDecreasingStep(s) == \E i \in 1..(Len(s) - 1) : s[i] > s[i + 1]

ConstructedWithTimestamps ==
    /\ ConstructedFrom("Undefined")
    /\ arg.commonData.Timestamp.defined

\* C13 as stated: a provider constructed with order Undefined from
\* timestamps that hold two equal neighbours or a decreasing step keeps
\* the order Undefined.
C13_PromotionOnlyIfStrictlyIncreasing ==
    (/\ ConstructedWithTimestamps
     /\ \/ HasEqualNeighbours(arg.commonData.Timestamp.value)
        \/ HasDecreasingStep(arg.commonData.Timestamp.value))
        => CommonData.Order = "Undefined"

\* C13: a provider constructed with order Undefined is promoted to Ordered
\* exactly when it has at least 2 rows and its timestamps are non-decreasing
\* with the first different from the last: timestamps with a decreasing
\* step, or all equal, keep Undefined; timestamps with equal neighbours but
\* no decreasing step and different ends (1, 1, 2) are promoted.
C13_PromotionIffSortedWithDifferentEnds ==
    ConstructedWithTimestamps =>
        LET ts == arg.commonData.Timestamp.value
        IN /\ HasDecreasingStep(ts) => CommonData.Order = "Undefined"
           /\ CommonData.Order = "Ordered"
                  <=> /\ Len(ts) >= 2
                      /\ ~HasDecreasingStep(ts)
                      /\ ts[1] # ts[Len(ts)]
           /\ CommonData.Order \in {"Ordered", "Undefined"}

C13_Witness ==
    /\ ConstructedWithTimestamps
    /\ arg.commonData.Timestamp.value = <<1, 1, 2>>
    /\ ~arg.skipCheck
    /\ CommonData.Order = "Ordered"

(***************************************************************************)
(* TRawObjectsDataProvider::SetGroupIds and SetSubgroupIds.                *)
(* CalcGroupIdFor and CalcSubgroupIdFor hash a string to an id.            *)
(***************************************************************************)
StringIds == {"a", "b"}

CalcGroupIdFor(str) == IF str = "a" THEN 1 ELSE 2

CalcSubgroupIdFor(str) == IF str = "a" THEN 1 ELSE 2

Called(status, error, grouping, commonData) ==
    [status |-> status, error |-> error, grouping |-> grouping, commonData |-> commonData]

ErrGroupIdsSize == "group Ids data size is not equal to object count"
ErrSubgroupIdsSize == "subgroup Ids data size is not equal to object count"
ErrSubgroupStringsWithoutGroup == "non-empty subgroupStringIds when GroupIds is not defined"

SetGroupIdsAssigningFirst(grouping, commonData, groupStringIds, oob) ==
    IF ~CheckDataSize(Len(groupStringIds), GetObjectCount(grouping), FALSE)
    THEN Called("error", ErrGroupIdsSize, grouping, commonData)
    ELSE LET newGroupIds == [i \in 1..Len(groupStringIds) |->
                                CalcGroupIdFor(groupStringIds[i])]
             assigned == [commonData EXCEPT !.GroupIds = Just(newGroupIds)]
             created == CreateObjectsGroupingFromGroupIds(
                            GetObjectCount(grouping), Just(newGroupIds), oob)
         IN IF created.status # "ok"
            THEN Called(created.status, created.error, grouping, assigned)
            ELSE Called("ok", "", created.grouping, assigned)

SetGroupIds(grouping, commonData, groupStringIds, oob) ==
    IF ~CheckDataSize(Len(groupStringIds), GetObjectCount(grouping), FALSE)
    THEN Called("error", ErrGroupIdsSize, grouping, commonData)
    ELSE LET newGroupIds == [i \in 1..Len(groupStringIds) |->
                                CalcGroupIdFor(groupStringIds[i])]
             created == CreateObjectsGroupingFromGroupIds(
                            GetObjectCount(grouping), Just(newGroupIds), oob)
         IN IF created.status # "ok"
            THEN Called(created.status, created.error, grouping, commonData)
            ELSE Called("ok", "", created.grouping,
                        [commonData EXCEPT !.GroupIds = Just(newGroupIds)])

SetSubgroupIds(grouping, commonData, subgroupStringIds) ==
    IF ~CheckDataSize(Len(subgroupStringIds), GetObjectCount(grouping), FALSE)
    THEN Called("error", ErrSubgroupIdsSize, grouping, commonData)
    ELSE IF ~commonData.GroupIds.defined
    THEN Called("error", ErrSubgroupStringsWithoutGroup, grouping, commonData)
    ELSE LET newSubgroupIds == [i \in 1..Len(subgroupStringIds) |->
                                   CalcSubgroupIdFor(subgroupStringIds[i])]
         IN Called("ok", "", grouping,
                   [commonData EXCEPT !.SubgroupIds = Just(newSubgroupIds)])

\* the arguments a method is called with on a provider of n objects: of the
\* right length, one too long, or empty
StringIdsArgs(n) == UNION {[1..k -> StringIds] : k \in {0, n, n + 1}}

InitSetIds ==
    /\ op = "none"
    /\ result = NoResult
    /\ NoGroupingCall
    /\ pc = "new"
    /\ ObjectsGrouping = <<>>
    /\ CommonData = <<>>
    /\ NoRawData
    /\ \E n \in 0..MaxRows :
           /\ arg \in ConstructorArgs(n, {"Undefined"}, {Nothing, Just(Ones(n))})
           /\ ~arg.skipCheck

Finish(called) ==
    /\ result' = [status |-> called.status, error |-> called.error,
                  grouping |-> <<>>, requests |-> <<>>]
    /\ pc' = IF called.status = "crash" THEN "failed" ELSE "live"
    /\ ObjectsGrouping' = called.grouping
    /\ CommonData' = called.commonData
    /\ UNCHANGED <<groupingVars, rawVars>>

CallSetGroupIds ==
    /\ pc = "live"
    /\ \E groupStringIds \in StringIdsArgs(GetObjectCount(ObjectsGrouping)) :
           /\ arg' = groupStringIds
           /\ \E oob \in OobChoices(Just(groupStringIds)) :
                  Finish(SetGroupIds(ObjectsGrouping, CommonData, groupStringIds, oob))
    /\ op' = "SetGroupIds"

CallSetSubgroupIds ==
    /\ pc = "live"
    /\ \E subgroupStringIds \in StringIdsArgs(GetObjectCount(ObjectsGrouping)) :
           /\ arg' = subgroupStringIds
           /\ Finish(SetSubgroupIds(ObjectsGrouping, CommonData, subgroupStringIds))
    /\ op' = "SetSubgroupIds"

NextSetIds == Construct \/ CallSetGroupIds \/ CallSetSubgroupIds

SpecSetIds == InitSetIds /\ [][NextSetIds]_vars

(***************************************************************************)
(* Properties of SetGroupIds and SetSubgroupIds.                           *)
(***************************************************************************)
HashedGroupIds(groupStringIds) ==
    [i \in 1..Len(groupStringIds) |-> CalcGroupIdFor(groupStringIds[i])]

GroupingAndIdsUnchanged ==
    /\ ObjectsGrouping' = ObjectsGrouping
    /\ CommonData'.GroupIds = CommonData.GroupIds

SetGroupIdsStep ==
    /\ (\/ Len(arg') # GetObjectCount(ObjectsGrouping)
        \/ HasReuse(HashedGroupIds(arg'))) => result'.status = "error"
    /\ result'.status = "error" =>
           /\ GroupingAndIdsUnchanged
           /\ CommonData'.SubgroupIds = CommonData.SubgroupIds

SetSubgroupIdsStep ==
    /\ (\/ Len(arg') # GetObjectCount(ObjectsGrouping)
        \/ ~CommonData.GroupIds.defined) => result'.status = "error"
    /\ result'.status = "error" => CommonData'.SubgroupIds = CommonData.SubgroupIds
    /\ GroupingAndIdsUnchanged

\* C9: SetGroupIds fails when the length of its argument differs from the
\* row count or the hashed ids are not consecutive; SetSubgroupIds fails
\* when the length differs from the row count or there is no group id
\* column; a failing call leaves the grouping, the group ids and the
\* subgroup ids as they were, and SetSubgroupIds never changes the grouping
\* or the group ids.
C9_SetIdsFailuresChangeNothing ==
    [][/\ (pc = "live" /\ op' = "SetGroupIds") => SetGroupIdsStep
       /\ (pc = "live" /\ op' = "SetSubgroupIds") => SetSubgroupIdsStep]_vars

C9_Witness ==
    /\ op = "SetGroupIds"
    /\ arg = <<"a", "b", "a">>
    /\ result.error = ErrNotConsecutive
    /\ CommonData.GroupIds = Just(<<1, 1, 1>>)
    /\ CommonData.SubgroupIds = Just(<<2, 2, 1>>)

(***************************************************************************)
(* Subsets.  Compose(src, srcSubset): element i of the result is element   *)
(* srcSubset[i] of src; two full subsets compose to a full subset.         *)
(***************************************************************************)
Compose(src, srcSubset) ==
    IF src.kind = "Full" THEN srcSubset
    ELSE IF srcSubset.kind = "Full" THEN src
    ELSE TIndexedSubset([i \in 1..SubsetSize(srcSubset) |->
                            SubsetAt(src, SubsetAt(srcSubset, i - 1))])

\* GetSubsetOfMaybeEmpty<T>: the column's elements the subset selects
GetSubsetOfMaybeEmpty(src, subsetIndexing) ==
    IF src.defined
    THEN Just([i \in 1..SubsetSize(subsetIndexing) |->
                  src.value[SubsetAt(subsetIndexing, i - 1) + 1]])
    ELSE Nothing

\* Combine(srcOrder, subsetOrder) of EObjectsOrder
Combine(srcOrder, subsetOrder) ==
    CASE srcOrder = "Ordered" -> subsetOrder
      [] srcOrder = "RandomShuffled" -> "RandomShuffled"
      [] OTHER -> IF subsetOrder = "RandomShuffled" THEN "RandomShuffled" ELSE "Undefined"

(***************************************************************************)
(* TCommonObjectsData::GetSubset.  The four tasks write disjoint fields of *)
(* result and only read the source, so their order does not matter.        *)
(***************************************************************************)
CommonDataGetSubset(commonData, objectsGroupingSubset) ==
    [FeaturesLayout |-> commonData.FeaturesLayout,
     Order |-> Combine(commonData.Order, objectsGroupingSubset.Order),
     SubsetIndexing |-> Compose(commonData.SubsetIndexing,
                                objectsGroupingSubset.ObjectsIndexing),
     GroupIds |-> GetSubsetOfMaybeEmpty(commonData.GroupIds,
                                        objectsGroupingSubset.ObjectsIndexing),
     SubgroupIds |-> GetSubsetOfMaybeEmpty(commonData.SubgroupIds,
                                           objectsGroupingSubset.ObjectsIndexing),
     Timestamp |-> GetSubsetOfMaybeEmpty(commonData.Timestamp,
                                         objectsGroupingSubset.ObjectsIndexing)]

(***************************************************************************)
(* TArrayValuesHolder: a feature's id, the source array and the subset     *)
(* indexing its values are read through.  A null THolder is Nothing.       *)
(***************************************************************************)
TArrayValuesHolder(id, src, subsetIndexing) ==
    [Id |-> id, Src |-> src, SubsetIndexing |-> subsetIndexing]

\* CreateSubsetFeatures for raw features (lines 354-376)
CreateSubsetFeatures(src, subsetIndexing) ==
    [f \in 1..Len(src) |->
        IF src[f].defined
        THEN Just(TArrayValuesHolder(src[f].value.Id, src[f].value.Src, subsetIndexing))
        ELSE Nothing]

FeaturesIndexingOfSubsetOnly(subsetCommonData, objectsGroupingSubset) ==
    objectsGroupingSubset.ObjectsIndexing

\* lines 391 and 396: subsetCommonData.SubsetIndexing.Get()
FeaturesIndexing(subsetCommonData, objectsGroupingSubset) ==
    subsetCommonData.SubsetIndexing

(***************************************************************************)
(* TRawObjectsDataProvider::GetSubset                                      *)
(***************************************************************************)
RawGetSubset(commonData, data, objectsGroupingSubset) ==
    LET subsetCommonData == CommonDataGetSubset(commonData, objectsGroupingSubset)
        indexing == FeaturesIndexing(subsetCommonData, objectsGroupingSubset)
        made == ObjectsDataProvider(Just(objectsGroupingSubset.SubsetGrouping),
                                    subsetCommonData, TRUE,
                                    [crash |-> FALSE, value |-> 0])
    IN [grouping |-> made.grouping,
        commonData |-> made.commonData,
        data |-> [FloatFeatures |-> CreateSubsetFeatures(data.FloatFeatures, indexing),
                  CatFeatures |-> CreateSubsetFeatures(data.CatFeatures, indexing),
                  CatFeaturesHashToString |-> data.CatFeaturesHashToString]]

(***************************************************************************)
(* TObjectsGroupingSubset: the subset of a grouping that takes the groups  *)
(* sel (0-based group indices, each at most once) in that order.           *)
(***************************************************************************)
RECURSIVE SelectedObjects(_, _)
SelectedObjects(grouping, sel) ==
    IF sel = <<>> THEN <<>>
    ELSE LET g == GetGroup(grouping, Head(sel))
         IN [i \in 1..(g.End - g.Begin) |-> g.Begin + i - 1]
                \o SelectedObjects(grouping, Tail(sel))

RECURSIVE SelectedBounds(_, _, _)
SelectedBounds(grouping, sel, begin) ==
    IF sel = <<>> THEN <<>>
    ELSE LET g == GetGroup(grouping, Head(sel))
         IN <<TGroupBounds(begin, begin + (g.End - g.Begin))>>
                \o SelectedBounds(grouping, Tail(sel), begin + (g.End - g.Begin))

Selections(k) ==
    {sel \in SeqsUpTo(0..(k - 1), k) :
        \A i, j \in 1..Len(sel) : i # j => sel[i] # sel[j]}

SubsetOrders(sel) ==
    IF StrictlyIncreasing(sel) THEN {"Ordered", "Undefined"}
    ELSE {"RandomShuffled", "Undefined"}

GroupingSubsets(grouping) ==
    {[ObjectsIndexing |-> TFullSubset(GetObjectCount(grouping)),
      SubsetGrouping |-> grouping,
      Order |-> "Ordered"]}
    \cup
    {[ObjectsIndexing |-> TIndexedSubset(SelectedObjects(grouping, sel)),
      SubsetGrouping |-> SelectedBounds(grouping, sel, 0),
      Order |-> o] : <<sel, o>> \in
          UNION {{<<sl, so>> : so \in SubsetOrders(sl)} :
                     sl \in Selections(GetGroupCount(grouping))}}

(***************************************************************************)
(* The raw providers subsets are taken from.                               *)
(***************************************************************************)
FloatValue(pos) == 10 + pos

CatValue(pos) == 20 + pos

Reversed(n) == [i \in 1..n |-> n + 1 - i]

RawLayout == [Float |-> <<TRUE, FALSE>>, Cat |-> <<TRUE>>]

RawData(srcSize, subsetIndexing) ==
    [FloatFeatures |->
         <<Just(TArrayValuesHolder(0, [j \in 1..srcSize |-> FloatValue(j)], subsetIndexing)),
           Nothing>>,
     CatFeatures |->
         <<Just(TArrayValuesHolder(2, [j \in 1..srcSize |-> CatValue(j)], subsetIndexing))>>,
     CatFeaturesHashToString |-> <<{CatValue(j) : j \in 1..srcSize}>>]

RawColumns(n) ==
    {[GroupIds |-> Nothing, SubgroupIds |-> Nothing, Timestamp |-> Nothing],
     [GroupIds |-> Nothing, SubgroupIds |-> Nothing,
      Timestamp |-> Just([i \in 1..n |-> i])],
     [GroupIds |-> Just([i \in 1..n |-> (i + 1) \div 2]),
      SubgroupIds |-> Just([i \in 1..n |-> 1 + (i % 2)]),
      Timestamp |-> Just([i \in 1..n |-> 1 + (i \div 2)])]}

RawProviderArgs ==
    UNION {
        {[commonData |-> [FeaturesLayout |-> Just(RawLayout),
                          SubsetIndexing |-> ix.indexing,
                          Order |-> o,
                          GroupIds |-> c.GroupIds,
                          SubgroupIds |-> c.SubgroupIds,
                          Timestamp |-> c.Timestamp],
          data |-> RawData(ix.srcSize, ix.indexing)] :
             ix \in {[indexing |-> TFullSubset(n), srcSize |-> n],
                     [indexing |-> TIndexedSubset(Reversed(n)), srcSize |-> n + 1]},
             o \in EObjectsOrder,
             c \in RawColumns(n)} : n \in 1..MaxSubsetRows}

InitSubset ==
    /\ op = "none"
    /\ result = NoResult
    /\ NoGroupingCall
    /\ pc = "live"
    /\ \E a \in RawProviderArgs :
           LET made == ObjectsDataProvider(Nothing, a.commonData, FALSE,
                                           [crash |-> FALSE, value |-> 0])
           IN /\ made.status = "ok"
              /\ arg = a
              /\ ObjectsGrouping = made.grouping
              /\ CommonData = made.commonData
              /\ Data = a.data
              /\ source = [grouping |-> made.grouping,
                           commonData |-> made.commonData,
                           data |-> a.data,
                           subsets |-> <<>>]

TakeSubset(from, to) ==
    /\ pc = from
    /\ \E objectsGroupingSubset \in GroupingSubsets(ObjectsGrouping) :
           LET subset == RawGetSubset(CommonData, Data, objectsGroupingSubset)
           IN /\ arg' = objectsGroupingSubset
              /\ ObjectsGrouping' = subset.grouping
              /\ CommonData' = subset.commonData
              /\ Data' = subset.data
              /\ source' = [source EXCEPT
                               !.subsets = Append(@, objectsGroupingSubset.ObjectsIndexing)]
    /\ pc' = to
    /\ op' = "GetSubset"
    /\ result' = [NoResult EXCEPT !.status = "ok"]
    /\ UNCHANGED groupingVars

\* GetSubset called on a provider that was constructed from loaded data
GetSubset == TakeSubset("live", "subset")

\* GetSubset called on a provider that GetSubset returned
GetSubsetOfSubset == TakeSubset("subset", "subset of subset")

NextSubset == GetSubset \/ GetSubsetOfSubset

SpecSubset == InitSubset /\ [][NextSubset]_vars

(***************************************************************************)
(* Properties of GetSubset.                                                *)
(***************************************************************************)
\* the values a column of features shows at its logical positions
ColumnValues(column) ==
    IF column.defined
    THEN Just([i \in 1..SubsetSize(column.value.SubsetIndexing) |->
                  column.value.Src[SubsetAt(column.value.SubsetIndexing, i - 1) + 1]])
    ELSE Nothing

\* everything a provider shows at its logical row positions
Rows(commonData, data) ==
    [Float |-> [f \in 1..Len(data.FloatFeatures) |-> ColumnValues(data.FloatFeatures[f])],
     Cat |-> [f \in 1..Len(data.CatFeatures) |-> ColumnValues(data.CatFeatures[f])],
     GroupIds |-> commonData.GroupIds,
     SubgroupIds |-> commonData.SubgroupIds,
     Timestamp |-> commonData.Timestamp]

\* the single subset Compose(S1, S2) applied to the provider the first
\* subset was taken from
ComposedSubsetOfSource ==
    RawGetSubset(source.commonData, source.data,
                 [ObjectsIndexing |-> Compose(source.subsets[1], source.subsets[2]),
                  SubsetGrouping |-> ObjectsGrouping,
                  Order |-> "Undefined"])

\* C3: GetSubset(S2) of GetSubset(S1) of a raw provider shows at every
\* logical row the feature values, group ids, subgroup ids and timestamps
\* that the single subset Compose(S1, S2) of the provider shows.
C3_SubsetOfSubsetIsComposedSubset ==
    pc = "subset of subset" =>
        Rows(CommonData, Data)
            = Rows(ComposedSubsetOfSource.commonData, ComposedSubsetOfSource.data)

\* two reordering subsets of a provider that is itself a reordered view of
\* its source arrays
C3_Witness ==
    /\ pc = "subset of subset"
    /\ source.commonData.SubsetIndexing = TIndexedSubset(<<3, 2, 1>>)
    /\ source.subsets = <<TIndexedSubset(<<2, 0, 1>>), TIndexedSubset(<<1, 0>>)>>
    /\ CommonData.Timestamp = Just(<<1, 3>>)
    /\ CommonData.SubsetIndexing = TIndexedSubset(<<3, 1>>)
    /\ Rows(CommonData, Data).Float[1] = Just(<<FloatValue(4), FloatValue(2)>>)

(***************************************************************************)
(* Quantized columns.  A bit is 0 or 1; integers that are stored or        *)
(* checksummed are sequences of bits, least significant first.             *)
(***************************************************************************)
\* sizeof(ui64), the word of the compressed storage
SizeOfUi64 == 8

\* bits in a byte (bitsPerKey = bytesPerKey*8)
BitsPerByte == 8

\* sizeof(ui8), the value type of quantized float features
SizeOfFloatCode == 1

\* sizeof(ui32), the value type of quantized categorical features
SizeOfCatCode == 4

\* sizeof(ui32), the type of a checksum and of the fields of a saved record
SizeOfUi32 == 4

BitsPerWord == SizeOfUi64 * BitsPerByte

RECURSIVE ToBits(_, _)
ToBits(x, width) ==
    IF width = 0 THEN <<>> ELSE <<x % 2>> \o ToBits(x \div 2, width - 1)

RECURSIVE FromBits(_)
FromBits(bits) ==
    IF bits = <<>> THEN 0 ELSE Head(bits) + 2 * FromBits(Tail(bits))

Min(a, b) == IF a < b THEN a ELSE b

\* the sequence with the elements of the function f over 1..n
AsSeq(f, n) == SubSeq(f, 1, n)

CeilDiv(x, y) == (x + y - 1) \div y

\* TIndexHelper<ui64>(bitsPerKey)
EntriesPerType(bitsPerKey) == BitsPerWord \div bitsPerKey

\* TIndexHelper<ui64>::CompressedSize
CompressedSize(bitsPerKey, count) == CeilDiv(count, EntriesPerType(bitsPerKey))

\* TIndexHelper<ui64>::Offset and ::Shift, as a 0-based bit position
BitPosition(bitsPerKey, index) ==
    BitsPerWord * (index \div EntriesPerType(bitsPerKey))
        + (index % EntriesPerType(bitsPerKey)) * bitsPerKey

\* TCompressedArray(count, bitsPerKey, storage); storage holds the bits of
\* its ui64 words, word after word
TCompressedArray(count, bitsPerKey, storage) ==
    [Count |-> count, BitsPerKey |-> bitsPerKey, Storage |-> storage]

\* the bits of element index of a compressed array
ElementBits(array, index) ==
    SubSeq(array.Storage,
           BitPosition(array.BitsPerKey, index) + 1,
           BitPosition(array.BitsPerKey, index) + array.BitsPerKey)

\* the storage a compressed array of these values is built with
CompressedStorage(values, bitsPerKey) ==
    LET keys == AsSeq([i \in 1..Len(values) |-> ToBits(values[i], bitsPerKey)], Len(values))
    IN AsSeq(
        [p \in 1..(BitsPerWord * CompressedSize(bitsPerKey, Len(values))) |->
            LET inWord == (p - 1) % BitsPerWord
                entry == inWord \div bitsPerKey
                index == ((p - 1) \div BitsPerWord) * EntriesPerType(bitsPerKey) + entry
            IN IF entry < EntriesPerType(bitsPerKey) /\ index < Len(values)
               THEN keys[index + 1][(inWord % bitsPerKey) + 1]
               ELSE 0],
        BitsPerWord * CompressedSize(bitsPerKey, Len(values)))

(***************************************************************************)
(* TCompressedValuesHolderImpl<IColumn> (Kind "Compressed"), which is      *)
(* TQuantizedFloatValuesHolder / TQuantizedCatValuesHolder, and any other  *)
(* implementation of the column interface (Kind "Other").                  *)
(***************************************************************************)
TCompressedValuesHolderImpl(id, srcData, subsetIndexing) ==
    [Kind |-> "Compressed", Id |-> id, SrcData |-> srcData,
     SubsetIndexing |-> subsetIndexing]

OtherValuesHolder(id, srcData, subsetIndexing) ==
    [Kind |-> "Other", Id |-> id, SrcData |-> srcData,
     SubsetIndexing |-> subsetIndexing]

\* the element of value type T (sizeOfT bytes) a column shows at row
ElementAt(column, row, sizeOfT) ==
    LET bits == ElementBits(column.SrcData, SubsetAt(column.SubsetIndexing, row))
    IN FromBits(SubSeq(bits, 1, Min(Len(bits), sizeOfT * BitsPerByte)))

\* ExtractValues: the column's values in subset order
ExtractValues(column, sizeOfT) ==
    AsSeq([i \in 1..SubsetSize(column.SubsetIndexing) |-> ElementAt(column, i - 1, sizeOfT)],
          SubsetSize(column.SubsetIndexing))

(***************************************************************************)
(* UpdateCheckSum(init, value) is Crc32cExtend over the bytes of value:    *)
(* CRC-32C (Castagnoli), reflected, with the checksum complemented on the  *)
(* way in and on the way out.                                              *)
(***************************************************************************)
\* the reflected polynomial 0x82F63B78, least significant bit first
Crc32cPolynomial ==
    <<0,0,0,1, 1,1,1,0, 1,1,0,1, 1,1,0,0, 0,1,1,0, 1,1,1,1, 0,1,0,0, 0,0,0,1>>

Xor(a, b) == AsSeq([i \in 1..Len(a) |-> (a[i] + b[i]) % 2], Len(a))

Not(a) == AsSeq([i \in 1..Len(a) |-> 1 - a[i]], Len(a))

ShiftRight(a, k) == SubSeq(a, k + 1, Len(a)) \o AsSeq([i \in 1..k |-> 0], k)

RECURSIVE Crc32cBits(_, _)
Crc32cBits(crc, steps) ==
    IF steps = 0 THEN crc
    ELSE Crc32cBits(IF crc[1] = 1 THEN Xor(ShiftRight(crc, 1), Crc32cPolynomial)
                    ELSE ShiftRight(crc, 1),
                    steps - 1)

Crc32cTable ==
    [b \in 0..255 |-> Crc32cBits(ToBits(b, SizeOfUi32 * BitsPerByte), BitsPerByte)]

ByteBits == [b \in 0..255 |-> ToBits(b, BitsPerByte)]

\* a checksum is a ui32
IsUi32(bits) == Len(bits) = SizeOfUi32 * BitsPerByte

RECURSIVE Crc32cUpdate(_, _)
Crc32cUpdate(crc, bytes) ==
    IF bytes = <<>> \/ ~IsUi32(crc) THEN crc
    ELSE Crc32cUpdate(
            Xor(ShiftRight(crc, BitsPerByte),
                Crc32cTable[FromBits(Xor(SubSeq(crc, 1, BitsPerByte), ByteBits[Head(bytes)]))]),
            Tail(bytes))

Crc32cExtend(init, bytes) == Not(Crc32cUpdate(Not(init), bytes))

\* the bytes of a value of sizeOfT bytes in memory (little-endian)
ValueBytes(value, sizeOfT) ==
    AsSeq([k \in 1..sizeOfT |-> (value \div (2 ^ (BitsPerByte * (k - 1)))) % (2 ^ BitsPerByte)],
          sizeOfT)

UpdateCheckSum(init, value, sizeOfT) == Crc32cExtend(init, ValueBytes(value, sizeOfT))

(***************************************************************************)
(* TFeaturesLayout and TQuantizedFeaturesInfo.  Per-type feature indices   *)
(* are 0-based; the external (flat) index of a feature is its position     *)
(* among all features.                                                     *)
(***************************************************************************)
FeatureTypes == {"Float", "Categorical"}

TFeaturesLayout(floatAvailable, catAvailable, floatExternalIdx, catExternalIdx) ==
    [IsAvailable |-> [Float |-> floatAvailable, Categorical |-> catAvailable],
     ExternalIdx |-> [Float |-> floatExternalIdx, Categorical |-> catExternalIdx]]

GetFeatureCount(featuresLayout, featureType) ==
    Len(featuresLayout.IsAvailable[featureType])

IsAvailable(featuresLayout, featureType, perTypeFeatureIdx) ==
    featuresLayout.IsAvailable[featureType][perTypeFeatureIdx + 1]

GetExternalFeatureIdx(featuresLayout, featureType, perTypeFeatureIdx) ==
    featuresLayout.ExternalIdx[featureType][perTypeFeatureIdx + 1]

\* sizeof of the value type of the features of a type
SizeOfCode(featureType) ==
    IF featureType = "Float" THEN SizeOfFloatCode ELSE SizeOfCatCode

\* the member of TQuantizedObjectsData that holds the features of a type
FeaturesOf(data, featureType) ==
    IF featureType = "Float" THEN data.FloatFeatures ELSE data.CatFeatures

(***************************************************************************)
(* CheckDataSizes and TQuantizedObjectsData::Check: "" when they pass.     *)
(***************************************************************************)
ErrFeaturesSize == "features data size is not equal to featureLayout's features size"
ErrNullAvailable == "is null despite being available in featuresLayout"
ErrColumnSize == "feature data size is not equal to object count"
ErrNoQuantizedFeaturesInfo == "NCB::TQuantizedObjectsData::QuantizedFeaturesInfo is not initialized"

CheckDataSizes(objCount, featuresLayout, featureType, featuresData) ==
    IF ~CheckDataSize(Len(featuresData), GetFeatureCount(featuresLayout, featureType), FALSE)
    THEN ErrFeaturesSize
    ELSE IF \E f \in 1..Len(featuresData) :
               IsAvailable(featuresLayout, featureType, f - 1) /\ ~featuresData[f].defined
    THEN ErrNullAvailable
    ELSE IF \E f \in 1..Len(featuresData) :
               /\ IsAvailable(featuresLayout, featureType, f - 1)
               /\ ~CheckDataSize(SubsetSize(featuresData[f].value.SubsetIndexing), objCount, FALSE)
    THEN ErrColumnSize
    ELSE ""

QuantizedDataCheck(data, objCount, featuresLayout) ==
    IF ~data.QuantizedFeaturesInfo.defined THEN ErrNoQuantizedFeaturesInfo
    ELSE IF CheckDataSizes(objCount, featuresLayout, "Float", data.FloatFeatures) # ""
    THEN CheckDataSizes(objCount, featuresLayout, "Float", data.FloatFeatures)
    ELSE CheckDataSizes(objCount, featuresLayout, "Categorical", data.CatFeatures)

(***************************************************************************)
(* CalcFeatureValuesCheckSum and CalcFeaturesCheckSum.  Both branches of   *)
(* the dynamic_cast fold the column's elements of type T in subset order.  *)
(***************************************************************************)
RECURSIVE FoldValues(_, _, _)
FoldValues(checkSum, values, sizeOfT) ==
    IF values = <<>> \/ ~IsUi32(checkSum) THEN checkSum
    ELSE FoldValues(UpdateCheckSum(checkSum, Head(values), sizeOfT), Tail(values), sizeOfT)

\* const ui32 emptyColumnDataForCrc = 0
EmptyColumnDataForCrc == 0

RECURSIVE CalcFeatureValuesCheckSumFrom(_, _, _, _, _)
CalcFeatureValuesCheckSumFrom(checkSum, featuresLayout, featureType, featuresData, perTypeFeatureIdx) ==
    IF perTypeFeatureIdx >= GetFeatureCount(featuresLayout, featureType) THEN checkSum
    ELSE CalcFeatureValuesCheckSumFrom(
            IF IsAvailable(featuresLayout, featureType, perTypeFeatureIdx)
            THEN FoldValues(checkSum,
                            ExtractValues(featuresData[perTypeFeatureIdx + 1].value,
                                          SizeOfCode(featureType)),
                            SizeOfCode(featureType))
            ELSE UpdateCheckSum(checkSum, EmptyColumnDataForCrc, SizeOfCatCode),
            featuresLayout, featureType, featuresData, perTypeFeatureIdx + 1)

CalcFeatureValuesCheckSum(init, featuresLayout, featureType, featuresData) ==
    CalcFeatureValuesCheckSumFrom(init, featuresLayout, featureType, featuresData, 0)

CalcFeaturesCheckSumCatsFirst(commonData, data) ==
    CalcFeatureValuesCheckSum(
        CalcFeatureValuesCheckSum(data.QuantizedFeaturesInfo.value.CheckSum,
                                  commonData.FeaturesLayout.value, "Categorical",
                                  data.CatFeatures),
        commonData.FeaturesLayout.value, "Float", data.FloatFeatures)

CalcFeaturesCheckSum(commonData, data) ==
    CalcFeatureValuesCheckSum(
        CalcFeatureValuesCheckSum(data.QuantizedFeaturesInfo.value.CheckSum,
                                  commonData.FeaturesLayout.value, "Float",
                                  data.FloatFeatures),
        commonData.FeaturesLayout.value, "Categorical", data.CatFeatures)

(***************************************************************************)
(* The binary stream: a sequence of bytes.  SaveMulti of a ui32 writes its *)
(* 4 bytes; SaveRawData writes the bytes of the array.                     *)
(***************************************************************************)
SaveUi32(x) == ValueBytes(x, SizeOfUi32)

SaveRawDataLastFirst(values, sizeOfT) ==
    AsSeq([p \in 1..(sizeOfT * Len(values)) |->
              ValueBytes(values[Len(values) - ((p - 1) \div sizeOfT)], sizeOfT)
                  [((p - 1) % sizeOfT) + 1]],
          sizeOfT * Len(values))

\* byte p of the array is byte p % sizeOfT of its element p / sizeOfT
SaveRawData(values, sizeOfT) ==
    AsSeq([p \in 1..(sizeOfT * Len(values)) |->
              ValueBytes(values[((p - 1) \div sizeOfT) + 1], sizeOfT)
                  [((p - 1) % sizeOfT) + 1]],
          sizeOfT * Len(values))

\* the bits of an array of bytes in memory
BytesToBits(bytes) ==
    AsSeq([p \in 1..(BitsPerByte * Len(bytes)) |->
              ByteBits[bytes[((p - 1) \div BitsPerByte) + 1]][((p - 1) % BitsPerByte) + 1]],
          BitsPerByte * Len(bytes))

LoadUi32(stream) == FromBits(BytesToBits(SubSeq(stream, 1, SizeOfUi32)))

\* constexpr ui8 paddingBuffer[sizeof(ui64)-1] = {0}
PaddingBuffer == AsSeq([i \in 1..(SizeOfUi64 - 1) |-> 0], SizeOfUi64 - 1)

PaddingSizeOfBytes(compressedStorageVectorSize, bytesPerKey, objCount) ==
    compressedStorageVectorSize * SizeOfUi64 - objCount

\* line 661
PaddingSize(compressedStorageVectorSize, bytesPerKey, objCount) ==
    compressedStorageVectorSize * SizeOfUi64 - bytesPerKey * objCount

(***************************************************************************)
(* SaveFeatures: the record of one feature, and the records of the         *)
(* available features of one type.  A padding longer than the padding      *)
(* buffer would read past the buffer: the bytes written are then unknown.  *)
(***************************************************************************)
SaveFeature(column, featureType) ==
    LET values == ExtractValues(column, SizeOfCode(featureType))
        objCount == Len(values)
        bytesPerKey == SizeOfCode(featureType)
        bitsPerKey == bytesPerKey * BitsPerByte
        compressedStorageVectorSize == CompressedSize(bitsPerKey, objCount)
        paddingSize == PaddingSize(compressedStorageVectorSize, bytesPerKey, objCount)
    IN [featureId |-> column.Id,
        rowCount |-> objCount,
        bitsPerKey |-> bitsPerKey,
        compressedWordCount |-> compressedStorageVectorSize,
        payload |-> SaveRawData(values, bytesPerKey),
        padding |-> IF paddingSize <= Len(PaddingBuffer)
                    THEN SubSeq(PaddingBuffer, 1, paddingSize)
                    ELSE <<"beyond paddingBuffer">>]

RECURSIVE SaveFeaturesFrom(_, _, _, _)
SaveFeaturesFrom(featuresLayout, featureType, src, perTypeFeatureIdx) ==
    IF perTypeFeatureIdx >= GetFeatureCount(featuresLayout, featureType) THEN <<>>
    ELSE (IF IsAvailable(featuresLayout, featureType, perTypeFeatureIdx)
          THEN <<SaveFeature(src[perTypeFeatureIdx + 1].value, featureType)>>
          ELSE <<>>)
         \o SaveFeaturesFrom(featuresLayout, featureType, src, perTypeFeatureIdx + 1)

SaveFeatures(featuresLayout, featureType, src) ==
    SaveFeaturesFrom(featuresLayout, featureType, src, 0)

\* the records SaveNonSharedPart writes, in the order it writes them
SaveNonSharedPart(data) ==
    SaveFeatures(data.QuantizedFeaturesInfo.value.FeaturesLayout, "Float", data.FloatFeatures)
        \o SaveFeatures(data.QuantizedFeaturesInfo.value.FeaturesLayout, "Categorical",
                        data.CatFeatures)

\* the bytes of one record
RecordBytes(record) ==
    SaveUi32(record.featureId) \o SaveUi32(record.rowCount) \o SaveUi32(record.bitsPerKey)
        \o SaveUi32(record.compressedWordCount) \o record.payload \o record.padding

RECURSIVE StreamOf(_)
StreamOf(records) ==
    IF records = <<>> THEN <<>> ELSE RecordBytes(Head(records)) \o StreamOf(Tail(records))

(***************************************************************************)
(* LoadFeatures and TQuantizedObjectsData::Load.  A loaded column is a     *)
(* TCompressedValuesHolderImpl over the storage words read from the        *)
(* stream, with the bitsPerKey read from the stream.                       *)
(***************************************************************************)
ErrFeatureId == "deserialized feature id is not equal to expected flatFeatureIdx"
ErrColumnDataSize == "column data size is not equal to object count"
ErrEndOfStream == "read past the end of the stream"

Loaded(dst, stream) == [status |-> "ok", error |-> "", dst |-> dst, stream |-> stream]

NotLoaded(error) == [status |-> "error", error |-> error, dst |-> <<>>, stream |-> <<>>]

\* the body of the lambda of LoadFeatures, for one available feature
LoadFeature(flatFeatureIdx, subsetIndexing, stream) ==
    IF Len(stream) < 4 * SizeOfUi32 THEN NotLoaded(ErrEndOfStream)
    ELSE LET id == LoadUi32(stream)
             size == LoadUi32(SubSeq(stream, SizeOfUi32 + 1, Len(stream)))
             bitsPerKey == LoadUi32(SubSeq(stream, 2 * SizeOfUi32 + 1, Len(stream)))
             storageSize == LoadUi32(SubSeq(stream, 3 * SizeOfUi32 + 1, Len(stream)))
             storageEnd == 4 * SizeOfUi32 + storageSize * SizeOfUi64
         IN IF flatFeatureIdx # id THEN NotLoaded(ErrFeatureId)
            ELSE IF ~CheckDataSize(size, SubsetSize(subsetIndexing), FALSE)
            THEN NotLoaded(ErrColumnDataSize)
            ELSE IF Len(stream) < storageEnd THEN NotLoaded(ErrEndOfStream)
            ELSE Loaded(
                    Just(TCompressedValuesHolderImpl(
                            flatFeatureIdx,
                            TCompressedArray(
                                SubsetSize(subsetIndexing), bitsPerKey,
                                BytesToBits(SubSeq(stream, 4 * SizeOfUi32 + 1, storageEnd))),
                            subsetIndexing)),
                    SubSeq(stream, storageEnd + 1, Len(stream)))

RECURSIVE LoadFeaturesFrom(_, _, _, _, _, _)
LoadFeaturesFrom(featuresLayout, featureType, subsetIndexing, stream, perTypeFeatureIdx, dst) ==
    IF perTypeFeatureIdx >= GetFeatureCount(featuresLayout, featureType)
    THEN Loaded(dst, stream)
    ELSE IF ~IsAvailable(featuresLayout, featureType, perTypeFeatureIdx)
    THEN LoadFeaturesFrom(featuresLayout, featureType, subsetIndexing, stream,
                          perTypeFeatureIdx + 1, Append(dst, Nothing))
    ELSE LET feature == LoadFeature(
                            GetExternalFeatureIdx(featuresLayout, featureType, perTypeFeatureIdx),
                            subsetIndexing, stream)
         IN IF feature.status # "ok" THEN feature
            ELSE LoadFeaturesFrom(featuresLayout, featureType, subsetIndexing, feature.stream,
                                  perTypeFeatureIdx + 1, Append(dst, feature.dst))

LoadFeatures(featuresLayout, featureType, subsetIndexing, stream) ==
    LoadFeaturesFrom(featuresLayout, featureType, subsetIndexing, stream, 0, <<>>)

\* TQuantizedObjectsData::Load; dst is the loaded TQuantizedObjectsData
QuantizedDataLoad(subsetIndexing, quantizedFeaturesInfo, stream) ==
    LET floats == LoadFeatures(quantizedFeaturesInfo.FeaturesLayout, "Float",
                               subsetIndexing, stream)
        cats == LoadFeatures(quantizedFeaturesInfo.FeaturesLayout, "Categorical",
                             subsetIndexing, floats.stream)
    IN IF floats.status # "ok" THEN floats
       ELSE IF cats.status # "ok" THEN cats
       ELSE Loaded([FloatFeatures |-> floats.dst,
                    CatFeatures |-> cats.dst,
                    QuantizedFeaturesInfo |-> Just(quantizedFeaturesInfo)],
                   cats.stream)

(***************************************************************************)
(* TQuantizedObjectsData::GetSubset                                        *)
(***************************************************************************)
\* CreateSubsetFeatures for quantized features: CloneWithNewSubsetIndexing
CloneSubsetFeatures(src, subsetIndexing) ==
    AsSeq([f \in 1..Len(src) |->
              IF src[f].defined
              THEN Just([src[f].value EXCEPT !.SubsetIndexing = subsetIndexing])
              ELSE Nothing],
          Len(src))

QuantizedDataGetSubset(data, subsetComposition) ==
    [FloatFeatures |-> CloneSubsetFeatures(data.FloatFeatures, subsetComposition),
     CatFeatures |-> CloneSubsetFeatures(data.CatFeatures, subsetComposition),
     QuantizedFeaturesInfo |-> data.QuantizedFeaturesInfo]

(***************************************************************************)
(* The quantized datasets the operations are applied to: rowCount rows,    *)
(* two float and two categorical features that alternate in the flat       *)
(* order, columns of floatBits / catBits bits per key.                     *)
(***************************************************************************)
QuantizedLayouts ==
    {TFeaturesLayout(m[1], m[2], <<0, 2>>, <<1, 3>>) :
        m \in {<<<<TRUE, TRUE>>, <<TRUE, TRUE>>>>,
               <<<<TRUE, FALSE>>, <<FALSE, TRUE>>>>,
               <<<<FALSE, TRUE>>, <<TRUE, FALSE>>>>,
               <<<<FALSE, FALSE>>, <<TRUE, TRUE>>>>,
               <<<<TRUE, TRUE>>, <<FALSE, FALSE>>>>,
               <<<<TRUE, FALSE>>, <<FALSE, FALSE>>>>}}

BitsPerKeyChoices ==
    {[Float |-> 8, Categorical |-> 32],
     [Float |-> 1, Categorical |-> 17],
     [Float |-> 17, Categorical |-> 8]}

\* the code of a row: a float-bucket code fits one byte
FloatCode(perTypeFeatureIdx, row, seed, bitsPerKey) ==
    (3 * row + perTypeFeatureIdx + 5 * seed) % (2 ^ Min(bitsPerKey, BitsPerByte))

CatCode(perTypeFeatureIdx, row, seed, bitsPerKey) ==
    (65793 * row + 257 * perTypeFeatureIdx + seed) % (2 ^ Min(bitsPerKey, 30))

CodeOf(featureType, perTypeFeatureIdx, row, seed, bitsPerKey) ==
    IF featureType = "Float" THEN FloatCode(perTypeFeatureIdx, row, seed, bitsPerKey)
    ELSE CatCode(perTypeFeatureIdx, row, seed, bitsPerKey)

QuantizedColumn(featuresLayout, featureType, perTypeFeatureIdx, codes, bitsPerKey, subsetIndexing) ==
    TCompressedValuesHolderImpl(
        GetExternalFeatureIdx(featuresLayout, featureType, perTypeFeatureIdx),
        TCompressedArray(Len(codes), bitsPerKey, CompressedStorage(codes, bitsPerKey)),
        subsetIndexing)

QuantizedFeatures(featuresLayout, featureType, rowCount, seed, bitsPerKey, subsetIndexing, keepUnavailable) ==
    AsSeq([f \in 1..GetFeatureCount(featuresLayout, featureType) |->
              IF IsAvailable(featuresLayout, featureType, f - 1) \/ keepUnavailable
              THEN Just(QuantizedColumn(
                       featuresLayout, featureType, f - 1,
                       AsSeq([i \in 1..rowCount |->
                                 CodeOf(featureType, f - 1, i - 1, seed, bitsPerKey)],
                             rowCount),
                       bitsPerKey, subsetIndexing))
              ELSE Nothing],
          GetFeatureCount(featuresLayout, featureType))

QuantizedIndexings(rowCount) ==
    {TFullSubset(rowCount),
     TIndexedSubset(AsSeq([i \in 1..rowCount |-> rowCount - i], rowCount))}

QuantizedCommonData(featuresLayout, subsetIndexing) ==
    [FeaturesLayout |-> Just(featuresLayout),
     SubsetIndexing |-> subsetIndexing,
     Order |-> "Undefined",
     GroupIds |-> Nothing, SubgroupIds |-> Nothing, Timestamp |-> Nothing]

QuantizedDataset(featuresLayout, rowCount, seed, bits, subsetIndexing, keepUnavailable, checkSum) ==
    [commonData |-> QuantizedCommonData(featuresLayout, subsetIndexing),
     data |-> [FloatFeatures |->
                   QuantizedFeatures(featuresLayout, "Float", rowCount, seed,
                                     bits.Float, subsetIndexing, keepUnavailable),
               CatFeatures |->
                   QuantizedFeatures(featuresLayout, "Categorical", rowCount, seed,
                                     bits.Categorical, subsetIndexing, keepUnavailable),
               QuantizedFeaturesInfo |->
                   Just([FeaturesLayout |-> featuresLayout, CheckSum |-> checkSum])]]

\* one categorical feature of three codes, the floats unavailable
ThreeCodesLayout == TFeaturesLayout(<<FALSE>>, <<TRUE>>, <<0>>, <<1>>)

ThreeCodesDataset ==
    [commonData |-> QuantizedCommonData(ThreeCodesLayout, TFullSubset(3)),
     data |-> [FloatFeatures |-> <<Nothing>>,
               CatFeatures |->
                   <<Just(QuantizedColumn(ThreeCodesLayout, "Categorical", 0,
                                          <<0, 1706650, 5068410>>, 32, TFullSubset(3)))>>,
               QuantizedFeaturesInfo |->
                   Just([FeaturesLayout |-> ThreeCodesLayout, CheckSum |-> ToBits(13971, 32)])]]

QuantizedDatasets ==
    {ThreeCodesDataset}
    \cup
    UNION {
        {QuantizedDataset(l, n, IF keep THEN 1 ELSE 0, bits, ix, keep,
                          IF keep THEN ToBits(13971, 32) ELSE ToBits(0, 32)) :
            l \in QuantizedLayouts, bits \in BitsPerKeyChoices,
            ix \in QuantizedIndexings(n), keep \in BOOLEAN} : n \in 0..MaxColumnRows}

\* the reorderings of n rows a subset is taken with: the first two or the
\* last two rows exchanged, or the first row moved to the end
RowReorders(n) ==
    {TIndexedSubset(AsSeq([i \in 1..n |-> IF i = k THEN k
                                          ELSE IF i = k + 1 THEN k - 1
                                          ELSE i - 1], n)) : k \in {1, n - 1} \cap (1..(n - 1))}
    \cup {TIndexedSubset(AsSeq([i \in 1..n |-> i % n], n)) : k \in {n} \ {0, 1, 2}}

NoCalls == [status |-> "ok", error |-> "", records |-> <<>>, checkSums |-> <<>>, objectCount |-> 0]

InitQuantized ==
    /\ op = "none"
    /\ result = NoCalls
    /\ NoGroupingCall
    /\ pc = "live"
    /\ arg = <<>>
    /\ source = <<>>
    /\ \E d \in QuantizedDatasets :
           /\ QuantizedDataCheck(d.data, SubsetSize(d.commonData.SubsetIndexing),
                                 d.commonData.FeaturesLayout.value) = ""
           /\ ObjectsGrouping = TrivialGrouping(SubsetSize(d.commonData.SubsetIndexing))
           /\ CommonData = d.commonData
           /\ Data = d.data

\* TQuantizedObjectsDataProvider::CalcFeaturesCheckSum
CallCalcFeaturesCheckSum ==
    /\ pc \in {"live", "subset", "loaded"}
    /\ Len(result.checkSums) < MaxCheckSumCalls
    /\ op' = "CalcFeaturesCheckSum"
    /\ result' = [result EXCEPT !.checkSums = Append(@, CalcFeaturesCheckSum(CommonData, Data))]
    /\ UNCHANGED <<pc, arg, ObjectsGrouping, CommonData, Data, source, groupingVars>>

\* TQuantizedObjectsData::SaveNonSharedPart into an empty stream
CallSaveNonSharedPart ==
    /\ pc = "live"
    /\ op' = "SaveNonSharedPart"
    /\ result' = [NoCalls EXCEPT !.records = SaveNonSharedPart(Data)]
    /\ arg' = StreamOf(SaveNonSharedPart(Data))
    /\ pc' = "saved"
    /\ UNCHANGED <<ObjectsGrouping, CommonData, Data, source, groupingVars>>

\* TCommonObjectsData::Load and TQuantizedObjectsData::Load from the saved
\* stream, for objectCount rows and the quantization metadata of the saved
\* dataset
CallLoad ==
    /\ pc = "saved"
    /\ op' = "Load"
    /\ \E objCount \in {SubsetSize(CommonData.SubsetIndexing),
                        SubsetSize(CommonData.SubsetIndexing) + 1} :
           LET loaded == QuantizedDataLoad(TFullSubset(objCount),
                                           Data.QuantizedFeaturesInfo.value, arg)
           IN /\ result' = [NoCalls EXCEPT !.status = loaded.status,
                                           !.error = loaded.error,
                                           !.objectCount = objCount]
              /\ source' = [commonData |-> CommonData, data |-> Data]
              /\ IF loaded.status = "ok"
                 THEN /\ pc' = "loaded"
                      /\ Data' = loaded.dst
                      /\ CommonData' = [CommonData EXCEPT
                                           !.SubsetIndexing = TFullSubset(objCount)]
                      /\ ObjectsGrouping' = TrivialGrouping(objCount)
                 ELSE /\ pc' = "failed"
                      /\ UNCHANGED <<ObjectsGrouping, CommonData, Data>>
    /\ UNCHANGED <<arg, groupingVars>>

\* TQuantizedObjectsDataProvider::GetSubset with a subset that reorders the rows
QuantizedGetSubset ==
    /\ pc = "live"
    /\ op' = "GetSubset"
    /\ \E objectsIndexing \in RowReorders(SubsetSize(CommonData.SubsetIndexing)) :
           LET subsetCommonData ==
                   CommonDataGetSubset(CommonData,
                                       [ObjectsIndexing |-> objectsIndexing,
                                        Order |-> "RandomShuffled",
                                        SubsetGrouping |-> ObjectsGrouping])
           IN /\ arg' = objectsIndexing
              /\ CommonData' = subsetCommonData
              /\ Data' = QuantizedDataGetSubset(Data, subsetCommonData.SubsetIndexing)
    /\ source' = [commonData |-> CommonData, data |-> Data]
    /\ result' = NoCalls
    /\ pc' = "subset"
    /\ UNCHANGED <<ObjectsGrouping, groupingVars>>

NextQuantized ==
    \/ CallCalcFeaturesCheckSum
    \/ CallSaveNonSharedPart
    \/ CallLoad
    \/ QuantizedGetSubset

SpecQuantized == InitQuantized /\ [][NextQuantized]_vars

(***************************************************************************)
(* Properties of the quantized data.                                       *)
(***************************************************************************)
PerTypeFeatures(data, featureType) == 1..Len(FeaturesOf(data, featureType))

\* what a dataset shows of a feature: its id and its values in row order
FeatureShown(column, featureType) ==
    [Id |-> column.Id, Values |-> ExtractValues(column, SizeOfCode(featureType))]

SameAvailableFeatures(featuresLayout, data, sourceData) ==
    \A featureType \in FeatureTypes :
        /\ Len(FeaturesOf(data, featureType)) = GetFeatureCount(featuresLayout, featureType)
        /\ \A f \in PerTypeFeatures(data, featureType) :
               IF IsAvailable(featuresLayout, featureType, f - 1)
               THEN /\ FeaturesOf(data, featureType)[f].defined
                    /\ FeatureShown(FeaturesOf(data, featureType)[f].value, featureType)
                         = FeatureShown(FeaturesOf(sourceData, featureType)[f].value,
                                        featureType)
               ELSE ~FeaturesOf(data, featureType)[f].defined

\* C4: Load, over a full subset of the same row count and with the same
\* quantization metadata, of the bytes SaveNonSharedPart wrote succeeds and
\* yields a dataset where every available feature has the id and the value
\* at every row it has in the saved dataset, every unavailable slot is null
\* and CalcFeaturesCheckSum is that of the saved dataset.
C4_LoadOfSavedIsSame ==
    (op = "Load" /\ result.objectCount = SubsetSize(source.commonData.SubsetIndexing))
        => /\ pc = "loaded"
           /\ SameAvailableFeatures(source.commonData.FeaturesLayout.value, Data, source.data)
           /\ CalcFeaturesCheckSum(CommonData, Data)
                = CalcFeaturesCheckSum(source.commonData, source.data)

\* nine rows read in reverse order from 17-bit float and 8-bit categorical
\* columns, one feature of each type unavailable but present in the saved
\* dataset
C4_Witness ==
    /\ pc = "loaded"
    /\ SubsetSize(CommonData.SubsetIndexing) = 9
    /\ source.commonData.SubsetIndexing.kind = "Indexed"
    /\ source.data.FloatFeatures[2].defined
    /\ ~Data.FloatFeatures[2].defined
    /\ Data.FloatFeatures[1].defined
    /\ source.data.FloatFeatures[1].value.SrcData.BitsPerKey = 17
    /\ Data.FloatFeatures[1].value.SrcData.BitsPerKey = 8
    /\ Data.CatFeatures[2].defined
    /\ ExtractValues(Data.FloatFeatures[1].value, SizeOfFloatCode)[1] = FloatCode(0, 8, 1, 17)

\* the external ids of the available features of a type, ascending
AvailableFeatureIds(featuresLayout, featureType) ==
    LET count == GetFeatureCount(featuresLayout, featureType)
        available == SelectSeq(AsSeq([f \in 1..count |-> f], count),
                               LAMBDA f : IsAvailable(featuresLayout, featureType, f - 1))
    IN AsSeq([k \in 1..Len(available) |->
                 GetExternalFeatureIdx(featuresLayout, featureType, available[k] - 1)],
             Len(available))

\* the number of 8-byte words that hold rowCount values of bitsPerKey bits
WordsToHold(rowCount, bitsPerKey) == CeilDiv(rowCount * bitsPerKey, BitsPerWord)

RecordIsAsClaimed(record, featureType, objCount) ==
    /\ record.rowCount = objCount
    /\ record.bitsPerKey = SizeOfCode(featureType) * BitsPerByte
    /\ record.compressedWordCount = WordsToHold(record.rowCount, record.bitsPerKey)
    /\ Len(record.payload) = record.rowCount * SizeOfCode(featureType)
    /\ Len(record.padding) \in 0..(SizeOfUi64 - 1)
    /\ \A i \in 1..Len(record.padding) : record.padding[i] = 0
    /\ Len(record.payload) + Len(record.padding) = SizeOfUi64 * record.compressedWordCount

SavedLayout == Data.QuantizedFeaturesInfo.value.FeaturesLayout

\* C10: SaveNonSharedPart writes one record per available feature, floats
\* in ascending index before categoricals in ascending index and nothing
\* for unavailable features; in every record compressedWordCount is the
\* number of 8-byte words that hold rowCount values of the recorded
\* bitsPerKey (8 for floats, 32 for categoricals), the padding is 0..7 zero
\* bytes and payload plus padding is 8 * compressedWordCount bytes.
C10_SavedRecords ==
    op = "SaveNonSharedPart" =>
        LET floatIds == AvailableFeatureIds(SavedLayout, "Float")
            catIds == AvailableFeatureIds(SavedLayout, "Categorical")
        IN /\ Len(result.records) = Len(floatIds) + Len(catIds)
           /\ \A r \in 1..Len(result.records) :
                  /\ result.records[r].featureId = (floatIds \o catIds)[r]
                  /\ RecordIsAsClaimed(result.records[r],
                                       IF r <= Len(floatIds) THEN "Float" ELSE "Categorical",
                                       SubsetSize(CommonData.SubsetIndexing))
           /\ arg = StreamOf(result.records)

\* nine rows, a float and a categorical feature available and one of each
\* unavailable: 7 padding bytes after the 9 float bytes, 4 after the 36
\* categorical bytes
C10_Witness ==
    /\ op = "SaveNonSharedPart"
    /\ Len(result.records) = 2
    /\ result.records[1].featureId = 0
    /\ result.records[1].rowCount = 9
    /\ result.records[1].compressedWordCount = 2
    /\ Len(result.records[1].padding) = 7
    /\ result.records[2].featureId = 3
    /\ result.records[2].compressedWordCount = 5
    /\ Len(result.records[2].padding) = 4
    /\ Len(arg) = 88

(***************************************************************************)
(* The checksum as a fold of bytes.                                        *)
(***************************************************************************)
RECURSIVE FoldedBytesFrom(_, _, _, _)
FoldedBytesFrom(featuresLayout, featureType, featuresData, perTypeFeatureIdx) ==
    IF perTypeFeatureIdx >= GetFeatureCount(featuresLayout, featureType) THEN <<>>
    ELSE (IF IsAvailable(featuresLayout, featureType, perTypeFeatureIdx)
          THEN SaveRawData(ExtractValues(featuresData[perTypeFeatureIdx + 1].value,
                                         SizeOfCode(featureType)),
                           SizeOfCode(featureType))
          ELSE <<0, 0, 0, 0>>)
         \o FoldedBytesFrom(featuresLayout, featureType, featuresData, perTypeFeatureIdx + 1)

\* the values of the float features in ascending index, then those of the
\* categorical features in ascending index, each column in row order and a
\* ui32 zero for every unavailable feature
FoldedBytes(commonData, data) ==
    FoldedBytesFrom(commonData.FeaturesLayout.value, "Float", data.FloatFeatures, 0)
        \o FoldedBytesFrom(commonData.FeaturesLayout.value, "Categorical", data.CatFeatures, 0)

CheckSumIsFoldOfBytes ==
    pc \in {"live", "subset", "loaded"} =>
        \A call \in 1..Len(result.checkSums) :
            result.checkSums[call]
                = Crc32cExtend(Data.QuantizedFeaturesInfo.value.CheckSum,
                               FoldedBytes(CommonData, Data))

Differing(a, b) == {i \in 1..Len(a) : a[i] # b[i]}

\* a and b differ, and all their differences lie within width consecutive
\* positions
DifferWithin(a, b, width) ==
    /\ Differing(a, b) # {}
    /\ \A i, j \in Differing(a, b) : j - i < width

SourceCheckSum == CalcFeaturesCheckSum(source.commonData, source.data)

\* C5 as stated: the checksum is the deterministic fold, and a dataset
\* that holds the rows of another in a different order has a different
\* checksum.
C5_ReorderedRowsChangeCheckSum ==
    /\ CheckSumIsFoldOfBytes
    /\ (/\ pc = "subset"
        /\ FoldedBytes(CommonData, Data) # FoldedBytes(source.commonData, source.data))
           => CalcFeaturesCheckSum(CommonData, Data) # SourceCheckSum

\* C5: every call of CalcFeaturesCheckSum on a dataset returns the CRC-32C
\* fold, from the quantization-metadata checksum, of the float features in
\* ascending index then the categorical features in ascending index, each
\* in row order, with a ui32 zero for an unavailable feature; a dataset
\* that holds the rows of another in a different order has a different
\* checksum when the folded bytes of the two differ only within 4
\* consecutive bytes.
C5_CheckSumIsOrderedFold ==
    /\ CheckSumIsFoldOfBytes
    /\ (/\ pc = "subset"
        /\ DifferWithin(FoldedBytes(CommonData, Data),
                        FoldedBytes(source.commonData, source.data), SizeOfUi32))
           => CalcFeaturesCheckSum(CommonData, Data) # SourceCheckSum

\* the checksum computed twice on a dataset whose first two rows were
\* exchanged: one float feature, the two exchanged codes differ
C5_Witness ==
    /\ pc = "subset"
    /\ Len(result.checkSums) = 2
    /\ result.checkSums[1] = result.checkSums[2]
    /\ result.checkSums[1] # SourceCheckSum
    /\ SubsetSize(CommonData.SubsetIndexing) = 9
    /\ arg.indices[1] = 1
    /\ DifferWithin(FoldedBytes(CommonData, Data),
                    FoldedBytes(source.commonData, source.data), SizeOfUi32)

(***************************************************************************)
(* TQuantizedForCPUObjectsDataProvider.  An exception of the check is a    *)
(* record of the parts of its message: the prefix Check() puts before it,  *)
(* the message of the failed condition, and the feature type and index     *)
(* when the message holds them.                                            *)
(***************************************************************************)
IncompatiblePrefix == "Incompatible with TQuantizedForCPUObjectsDataProvider: "

ErrNotOfType == "is not of type"
ErrNotRawArray == "can't interpret TCompressedArray's data as raw array"

TCatboostException(prefix, message, featureType, featureIdx, requiredTypeName) ==
    [prefix |-> prefix, message |-> message, featureType |-> featureType,
     featureIdx |-> featureIdx, requiredTypeName |-> requiredTypeName]

NoException == TCatboostException("", "", "", Nothing, "")

\* TCompressedArray::CheckIfCanBeInterpretedAsRawArray<T>
CanBeInterpretedAsRawArray(array, sizeOfT) ==
    array.BitsPerKey = sizeOfT * BitsPerByte

RECURSIVE CheckIsRequiredTypeFrom(_, _, _, _)
CheckIsRequiredTypeFrom(featureType, data, requiredTypeName, featureIdx) ==
    IF featureIdx >= Len(data) THEN NoException
    ELSE IF ~data[featureIdx + 1].defined
    THEN CheckIsRequiredTypeFrom(featureType, data, requiredTypeName, featureIdx + 1)
    ELSE IF data[featureIdx + 1].value.Kind # "Compressed"
    THEN TCatboostException("", ErrNotOfType, featureType, Just(featureIdx), requiredTypeName)
    ELSE IF ~CanBeInterpretedAsRawArray(data[featureIdx + 1].value.SrcData,
                                        SizeOfCode(featureType))
    THEN TCatboostException("", ErrNotRawArray, "", Nothing, "")
    ELSE CheckIsRequiredTypeFrom(featureType, data, requiredTypeName, featureIdx + 1)

CheckIsRequiredType(featureType, data, requiredTypeName) ==
    CheckIsRequiredTypeFrom(featureType, data, requiredTypeName, 0)

\* TQuantizedForCPUObjectsDataProvider::Check
QuantizedForCPUCheck(data) ==
    LET floats == CheckIsRequiredType("Float", data.FloatFeatures,
                                      "TQuantizedFloatValuesHolder")
        cats == CheckIsRequiredType("Categorical", data.CatFeatures,
                                    "TQuantizedCatValuesHolder")
    IN IF floats # NoException THEN [floats EXCEPT !.prefix = IncompatiblePrefix]
       ELSE IF cats # NoException THEN [cats EXCEPT !.prefix = IncompatiblePrefix]
       ELSE NoException

\* the constructor: the base class constructors, Check() unless skipCheck,
\* then the unique values counts of the categorical features
QuantizedForCPUObjectsDataProvider(objectsGroupingArg, commonData, data, skipCheck) ==
    LET base == ObjectsDataProvider(objectsGroupingArg, commonData, skipCheck,
                                    [crash |-> FALSE, value |-> 0])
        dataError == QuantizedDataCheck(data, SubsetSize(commonData.SubsetIndexing),
                                        commonData.FeaturesLayout.value)
        cpuError == QuantizedForCPUCheck(data)
    IN IF base.status # "ok"
       THEN [status |-> "error", exception |-> TCatboostException("", base.error, "", Nothing, "")]
       ELSE IF ~skipCheck /\ dataError # ""
       THEN [status |-> "error", exception |-> TCatboostException("", dataError, "", Nothing, "")]
       ELSE IF ~skipCheck /\ cpuError # NoException
       THEN [status |-> "error", exception |-> cpuError]
       ELSE [status |-> "ok", exception |-> NoException,
             grouping |-> base.grouping, commonData |-> base.commonData, data |-> data,
             CatFeatureUniqueValuesCounts |->
                 AsSeq([f \in 1..Len(data.CatFeatures) |->
                           data.QuantizedFeaturesInfo.value.UniqueValuesCounts[f]],
                       Len(data.CatFeatures))]

(***************************************************************************)
(* The datasets the CPU provider is constructed from: every slot is null   *)
(* (its feature unavailable), a compressed column of the required width, a *)
(* compressed column of another width, or a column of another type.        *)
(***************************************************************************)
ColumnChoices == {"null", "required", "narrow", "wide", "other type"}

OtherBitsPerKey(choice) == IF choice = "narrow" THEN 1 ELSE 17

GateColumn(featuresLayout, featureType, perTypeFeatureIdx, choice) ==
    LET bitsPerKey == IF choice \in {"narrow", "wide"} THEN OtherBitsPerKey(choice)
                      ELSE SizeOfCode(featureType) * BitsPerByte
        codes == AsSeq([i \in 1..GateRows |->
                           CodeOf(featureType, perTypeFeatureIdx, i - 1, 0,
                                  Min(bitsPerKey, BitsPerByte))],
                       GateRows)
        column == QuantizedColumn(featuresLayout, featureType, perTypeFeatureIdx, codes,
                                  bitsPerKey, TFullSubset(GateRows))
    IN IF choice = "null" THEN Nothing
       ELSE IF choice = "other type" THEN Just([column EXCEPT !.Kind = "Other"])
       ELSE Just(column)

GateDataset(floatChoices, catChoices) ==
    LET featuresLayout ==
            TFeaturesLayout(
                AsSeq([f \in 1..Len(floatChoices) |-> floatChoices[f] # "null"],
                      Len(floatChoices)),
                AsSeq([f \in 1..Len(catChoices) |-> catChoices[f] # "null"], Len(catChoices)),
                <<0, 2>>, <<1, 3>>)
    IN [objectsGrouping |-> Nothing,
        skipCheck |-> FALSE,
        commonData |-> QuantizedCommonData(featuresLayout, TFullSubset(GateRows)),
        data |-> [FloatFeatures |->
                      AsSeq([f \in 1..Len(floatChoices) |->
                                GateColumn(featuresLayout, "Float", f - 1, floatChoices[f])],
                            Len(floatChoices)),
                  CatFeatures |->
                      AsSeq([f \in 1..Len(catChoices) |->
                                GateColumn(featuresLayout, "Categorical", f - 1, catChoices[f])],
                            Len(catChoices)),
                  QuantizedFeaturesInfo |->
                      Just([FeaturesLayout |-> featuresLayout,
                            CheckSum |-> ToBits(0, SizeOfUi32 * BitsPerByte),
                            UniqueValuesCounts |-> <<GateRows, GateRows>>])]]

InitCpuGate ==
    /\ op = "none"
    /\ result = [status |-> "none", exception |-> NoException]
    /\ NoGroupingCall
    /\ pc = "new"
    /\ ObjectsGrouping = <<>>
    /\ CommonData = <<>>
    /\ Data = <<>>
    /\ source = <<>>
    /\ \E floatChoices, catChoices \in ColumnChoices \X ColumnChoices, skipCheck \in BOOLEAN :
           arg = [GateDataset(floatChoices, catChoices) EXCEPT !.skipCheck = skipCheck]

\* TQuantizedForCPUObjectsDataProvider::TQuantizedForCPUObjectsDataProvider
ConstructForCPU ==
    /\ pc = "new"
    /\ op' = "ConstructForCPU"
    /\ LET made == QuantizedForCPUObjectsDataProvider(arg.objectsGrouping, arg.commonData,
                                                      arg.data, arg.skipCheck)
       IN /\ result' = [status |-> made.status, exception |-> made.exception]
          /\ IF made.status = "ok"
             THEN /\ pc' = "live"
                  /\ ObjectsGrouping' = made.grouping
                  /\ CommonData' = made.commonData
                  /\ Data' = made.data
                  /\ source' = made.CatFeatureUniqueValuesCounts
             ELSE /\ pc' = "failed"
                  /\ UNCHANGED <<ObjectsGrouping, CommonData, Data, source>>
    /\ UNCHANGED <<arg, groupingVars>>

\* Check() called on a provider that was constructed with skipCheck
CallCheckForCPU ==
    /\ pc = "live"
    /\ op' = "Check"
    /\ result' = [status |-> IF QuantizedForCPUCheck(Data) = NoException THEN "ok" ELSE "error",
                  exception |-> QuantizedForCPUCheck(Data)]
    /\ pc' = "checked"
    /\ UNCHANGED <<arg, ObjectsGrouping, CommonData, Data, source, groupingVars>>

NextCpuGate == ConstructForCPU \/ CallCheckForCPU

SpecCpuGate == InitCpuGate /\ [][NextCpuGate]_vars

(***************************************************************************)
(* Properties of the CPU gate.                                             *)
(***************************************************************************)
IsOffending(column, featureType) ==
    /\ column.defined
    /\ \/ column.value.Kind # "Compressed"
       \/ column.value.SrcData.BitsPerKey # SizeOfCode(featureType) * BitsPerByte

Offenders(data) ==
    {<<featureType, f - 1>> : <<featureType, f>> \in
        {<<t, g>> \in FeatureTypes \X (1..2) :
            g <= Len(FeaturesOf(data, t)) /\ IsOffending(FeaturesOf(data, t)[g], t)}}

\* Check() has run: in the constructor without skipCheck, or called
CheckHasRun ==
    \/ op = "ConstructForCPU" /\ ~arg.skipCheck
    \/ op = "Check"

\* C7 as stated: Check fails for every dataset with a non-null column that
\* is not of the required type or not of the required width, with an error
\* that has the prefix and names the feature index of an offending column;
\* it passes when only null columns are not as required, and it changes
\* no column or metadata.
C7_GateNamesOffendingFeature ==
    CheckHasRun =>
        /\ (Offenders(arg.data) # {}) <=> (result.status = "error")
        /\ result.status = "error" =>
               /\ result.exception.prefix = IncompatiblePrefix
               /\ result.exception.featureIdx.defined
               /\ <<result.exception.featureType, result.exception.featureIdx.value>>
                      \in Offenders(arg.data)
        /\ pc \in {"live", "checked"} => Data = arg.data

\* what the gate does: it fails exactly for the datasets with an offending
\* column, always with the prefix; the error names the feature index only
\* when its first offending column is of another type
C7_GateRejectsOffenders ==
    CheckHasRun =>
        /\ (Offenders(arg.data) # {}) <=> (result.status = "error")
        /\ result.status = "error" =>
               /\ result.exception.prefix = IncompatiblePrefix
               /\ result.exception.featureIdx.defined
                      <=> result.exception.message = ErrNotOfType
               /\ result.exception.featureIdx.defined =>
                      <<result.exception.featureType, result.exception.featureIdx.value>>
                          \in Offenders(arg.data)
        /\ pc \in {"live", "checked"} => Data = arg.data

(***************************************************************************)
(* TRawObjectsData::Check: "" when it passes.  A raw column is a           *)
(* TArrayValuesHolder; CatFeaturesHashToString holds, per categorical      *)
(* feature, the hash values that have a string.                            *)
(***************************************************************************)
ErrHashToStringSize == "CatFeaturesHashToString size is not equal to CatFeatures size"
ErrMissingHash == "value is missing from CatFeaturesHashToString"

RawDataCheck(data, objCount, featuresLayout) ==
    IF CheckDataSizes(objCount, featuresLayout, "Float", data.FloatFeatures) # ""
    THEN CheckDataSizes(objCount, featuresLayout, "Float", data.FloatFeatures)
    ELSE IF Len(data.CatFeatures) # 0
            /\ ~CheckDataSize(Len(data.CatFeaturesHashToString), Len(data.CatFeatures), FALSE)
    THEN ErrHashToStringSize
    ELSE IF CheckDataSizes(objCount, featuresLayout, "Categorical", data.CatFeatures) # ""
    THEN CheckDataSizes(objCount, featuresLayout, "Categorical", data.CatFeatures)
    ELSE IF \E f \in 1..Len(data.CatFeatures) :
               /\ data.CatFeatures[f].defined
               /\ \E value \in {ColumnValues(data.CatFeatures[f]).value[i] :
                                   i \in 1..SubsetSize(data.CatFeatures[f].value.SubsetIndexing)} :
                      value \notin data.CatFeaturesHashToString[f]
    THEN ErrMissingHash
    ELSE ""

(***************************************************************************)
(* The data the checks are called with: for every feature the layout marks *)
(* it available or not, and its slot is null, a column of objCount rows or *)
(* a column of one row more.                                               *)
(***************************************************************************)
SlotChoices == {"null", "rows", "more rows"}

CheckedLayouts ==
    {TFeaturesLayout(floatAvailable, catAvailable, <<0, 2>>, <<1>>) :
        floatAvailable \in BOOLEAN \X BOOLEAN, catAvailable \in {<<TRUE>>, <<FALSE>>}}

SlotRows(choice, objCount) == IF choice = "rows" THEN objCount ELSE objCount + 1

CheckedRawColumn(featureType, id, choice, objCount) ==
    IF choice = "null" THEN Nothing
    ELSE Just(TArrayValuesHolder(
                 id,
                 AsSeq([j \in 1..SlotRows(choice, objCount) |->
                           IF featureType = "Float" THEN FloatValue(j) ELSE CatValue(j)],
                       SlotRows(choice, objCount)),
                 TFullSubset(SlotRows(choice, objCount))))

CheckedQuantizedColumn(featuresLayout, featureType, f, choice, objCount) ==
    IF choice = "null" THEN Nothing
    ELSE Just(QuantizedColumn(
                 featuresLayout, featureType, f,
                 AsSeq([i \in 1..SlotRows(choice, objCount) |->
                           CodeOf(featureType, f, i - 1, 0, BitsPerByte)],
                       SlotRows(choice, objCount)),
                 SizeOfCode(featureType) * BitsPerByte,
                 TFullSubset(SlotRows(choice, objCount))))

CheckedRawData(featuresLayout, floatChoices, catChoice, knownHashes, objCount) ==
    [FloatFeatures |->
         AsSeq([f \in 1..2 |->
                   CheckedRawColumn("Float",
                                    GetExternalFeatureIdx(featuresLayout, "Float", f - 1),
                                    floatChoices[f], objCount)], 2),
     CatFeatures |-> <<CheckedRawColumn("Categorical", 1, catChoice, objCount)>>,
     CatFeaturesHashToString |-> <<{CatValue(j) : j \in 1..knownHashes}>>]

CheckedQuantizedData(featuresLayout, floatChoices, catChoice, objCount) ==
    [FloatFeatures |->
         AsSeq([f \in 1..2 |->
                   CheckedQuantizedColumn(featuresLayout, "Float", f - 1,
                                          floatChoices[f], objCount)], 2),
     CatFeatures |->
         <<CheckedQuantizedColumn(featuresLayout, "Categorical", 0, catChoice, objCount)>>,
     QuantizedFeaturesInfo |->
         Just([FeaturesLayout |-> featuresLayout,
               CheckSum |-> ToBits(0, SizeOfUi32 * BitsPerByte)])]

InitCheckData ==
    /\ op = "none"
    /\ result = [status |-> "none", error |-> ""]
    /\ NoGroupingCall
    /\ pc = "new"
    /\ ObjectsGrouping = <<>>
    /\ CommonData = <<>>
    /\ Data = <<>>
    /\ source = <<>>
    /\ \E objCount \in 0..MaxCheckedRows, featuresLayout \in CheckedLayouts,
          floatChoices \in SlotChoices \X SlotChoices, catChoice \in SlotChoices :
           \/ \E knownHashes \in {objCount, objCount + 1} :
                  arg = [kind |-> "raw", objectCount |-> objCount,
                         featuresLayout |-> featuresLayout,
                         data |-> CheckedRawData(featuresLayout, floatChoices, catChoice,
                                                 knownHashes, objCount)]
           \/ arg = [kind |-> "quantized", objectCount |-> objCount,
                     featuresLayout |-> featuresLayout,
                     data |-> CheckedQuantizedData(featuresLayout, floatChoices, catChoice,
                                                   objCount)]

Checked(error) ==
    /\ result' = [status |-> IF error = "" THEN "ok" ELSE "error", error |-> error]
    /\ pc' = "checked"
    /\ UNCHANGED <<arg, ObjectsGrouping, CommonData, Data, source, groupingVars>>

\* TRawObjectsData::Check
CallRawDataCheck ==
    /\ pc = "new"
    /\ arg.kind = "raw"
    /\ op' = "TRawObjectsData::Check"
    /\ Checked(RawDataCheck(arg.data, arg.objectCount, arg.featuresLayout))

\* TQuantizedObjectsData::Check
CallQuantizedDataCheck ==
    /\ pc = "new"
    /\ arg.kind = "quantized"
    /\ op' = "TQuantizedObjectsData::Check"
    /\ Checked(QuantizedDataCheck(arg.data, arg.objectCount, arg.featuresLayout))

NextCheckData == CallRawDataCheck \/ CallQuantizedDataCheck

SpecCheckData == InitCheckData /\ [][NextCheckData]_vars

(***************************************************************************)
(* Properties of the data checks.                                          *)
(***************************************************************************)
CheckSucceeded == pc = "checked" /\ result.status = "ok"

CheckedSlots ==
    {<<featureType, f>> \in FeatureTypes \X (1..2) :
        f <= Len(FeaturesOf(arg.data, featureType))}

SlotIsAvailable(slot) == IsAvailable(arg.featuresLayout, slot[1], slot[2] - 1)

SlotColumn(slot) == FeaturesOf(arg.data, slot[1])[slot[2]]

\* C11 as stated: after a successful check a slot is non-null if and only
\* if the layout marks its feature available, and every available column
\* has as many rows as the row count.
C11_NonNullIffAvailable ==
    CheckSucceeded =>
        \A slot \in CheckedSlots :
            /\ SlotColumn(slot).defined <=> SlotIsAvailable(slot)
            /\ SlotIsAvailable(slot) =>
                   SubsetSize(SlotColumn(slot).value.SubsetIndexing) = arg.objectCount

\* what the checks establish: every available feature has a non-null
\* column of as many rows as the row count; the slot of an unavailable
\* feature is not looked at by CheckDataSizes
C11_AvailableHaveColumns ==
    CheckSucceeded =>
        \A slot \in CheckedSlots :
            SlotIsAvailable(slot) =>
                /\ SlotColumn(slot).defined
                /\ SubsetSize(SlotColumn(slot).value.SubsetIndexing) = arg.objectCount

(***************************************************************************)
(* The order of a subset.                                                  *)
(***************************************************************************)
\* GetSubset has been called on the provider held in source
SubsetTaken == pc = "subset"

CombinedOrder == Combine(source.commonData.Order, arg.Order)

\* C12 as stated: the provider GetSubset returns reports the order
\* Combine(parent order, subset order); a subset that is not Ordered of an
\* Ordered provider never reports Ordered.
C12_SubsetOrderIsCombine ==
    SubsetTaken =>
        /\ CommonData.Order = CombinedOrder
        /\ (source.commonData.Order = "Ordered" /\ arg.Order # "Ordered")
               => CommonData.Order # "Ordered"

\* what GetSubset returns: the constructor it ends with promotes the
\* combined order Undefined to Ordered when the selected timestamps are
\* non-decreasing with different ends
C12_SubsetOrderIsPromotedCombine ==
    SubsetTaken =>
        CommonData.Order
            = PromotedOrder([CommonData EXCEPT !.Order = CombinedOrder], ObjectsGrouping)

(***************************************************************************)
(* The state of a raw provider between calls of SetGroupIds and            *)
(* SetSubgroupIds.                                                         *)
(***************************************************************************)
ProviderIsLive == pc = "live"

RowCount == SubsetSize(CommonData.SubsetIndexing)

CheckAgainstCurrentGroupingPasses ==
    \A oob \in OobChoices(CommonData.GroupIds) :
        CommonDataCheck(CommonData, Just(ObjectsGrouping), oob).status = "ok"

IdsAndTimestampsHaveRowCount ==
    /\ CommonData.SubgroupIds.defined =>
           /\ CommonData.GroupIds.defined
           /\ Len(CommonData.SubgroupIds.value) = Len(CommonData.GroupIds.value)
    /\ CommonData.Timestamp.defined => Len(CommonData.Timestamp.value) = RowCount

GroupingIsDerivedFromGroupIds ==
    /\ IsPartition(ObjectsGrouping, RowCount)
    /\ CommonData.GroupIds.defined =>
           GroupsAreRuns(ObjectsGrouping, CommonData.GroupIds.value)
    /\ CheckAgainstCurrentGroupingPasses

\* C14: in every state of a raw provider constructed with the checks enabled,
\* after any sequence of SetGroupIds and SetSubgroupIds calls, the grouping's
\* bounds partition [0, row count) and are the runs of the current group ids,
\* Check against the current grouping passes, subgroup ids are present only
\* with group ids of the same count, and timestamps have row-count length.
C14_SetIdsKeepConsistency ==
    ProviderIsLive => GroupingIsDerivedFromGroupIds /\ IdsAndTimestampsHaveRowCount

\* for providers of at least one row: the bounds partition the rows, Check
\* against the current grouping passes and the counts agree; the grouping is
\* the runs of the group ids once SetGroupIds has succeeded
C14_SetIdsKeepConsistencyOfNonEmpty ==
    (ProviderIsLive /\ RowCount >= 1) =>
        /\ IsPartition(ObjectsGrouping, RowCount)
        /\ CheckAgainstCurrentGroupingPasses
        /\ IdsAndTimestampsHaveRowCount
        /\ (op = "SetGroupIds" /\ result.status = "ok") =>
               GroupsAreRuns(ObjectsGrouping, CommonData.GroupIds.value)

\* on a provider of no rows the counts still agree
C14_SetIdsKeepCountsOfEmpty ==
    (ProviderIsLive /\ RowCount = 0) =>
        /\ GetObjectCount(ObjectsGrouping) = 0
        /\ IdsAndTimestampsHaveRowCount

====
